---- MODULE Spec2Model ----
(***************************************************************************)
(* A model of the one-click content extractor: the content script's        *)
(* extractPage / detectDocSections handlers and the helpers they call.     *)
(*                                                                         *)
(* Strings are sequences of one-character strings, so that split, trim,    *)
(* startsWith, replace and toLowerCase are computed the way the code       *)
(* computes them.                                                          *)
(***************************************************************************)
EXTENDS Integers, Sequences, FiniteSets, TLC

VARIABLES
    trees,       \* the node store: "doc" is the page's document, "clone" the renderer's copy
    response,    \* what the EXTRACT_PAGE listener last sent back (NoResponse before)
    mainContent, \* the element extractPage last took as the content region (0 before, and for null)
    location,    \* window.location.href
    sections,    \* what the GET_SECTIONS listener last sent back (NoSections before)
    className,   \* the class attribute handed to the two language-hint routines
    blockLang,   \* language extractCodeBlocks derives from className
    fenceLang,   \* language processNode writes on the fence for className
    unsupported, \* the sidebar patterns (by index) on which querySelectorAll throws
    normalizedLocation, \* what normalizeUrl last returned for window.location.href (Unset before)
    harvests,    \* how many GET_SECTIONS messages the listener has answered
    \* the popup
    detectedSections, \* the popup's list of sections
    selectedFormat,   \* the export format chosen in the popup
    checked,          \* the positions (from 1) of the checked boxes of the sections list
    tabUrl,           \* the page the active tab shows
    popupPc,          \* where the popup's click handler stands
    selectedSections, \* the sections the running batch walks through
    visits,           \* per section walked so far, the page the tab showed when it was asked to extract
    allContent,       \* the extracted pages of the running batch
    downloadQueue,    \* the files waiting for download
    isProcessingQueue,
    loops,            \* how many processDownloadQueue calls are inside their while loop
    inFlight,         \* the file handed to chrome.downloads whose callback is pending (NoFile if none)
    downloads,        \* the files handed to downloadFile so far, in order
    clicks,           \* how many times the user has clicked an extract button
    \* the MCP server
    browser,          \* the module's browser reference (NoBrowser for null)
    connected,        \* the browsers that run and are connected
    launched,         \* how many browsers puppeteer has launched
    pc,               \* where each tool call stands
    browserInstance,  \* each tool call's browser
    urls,             \* each tool call's input
    position,         \* the position in urls each tool call's loop is at
    page,             \* each tool call's page (NoPage for null)
    openPages,        \* the pages that are open in some browser
    results           \* each tool call's result sections

extractorVars == <<trees, response, mainContent, location, sections, className, blockLang,
                   fenceLang, unsupported, normalizedLocation, harvests>>

popupVars == <<detectedSections, selectedFormat, checked, tabUrl, popupPc, selectedSections,
               visits, allContent, downloadQueue, isProcessingQueue, loops, inFlight,
               downloads, clicks>>

serverVars == <<browser, connected, launched, pc, browserInstance, urls, position, page,
                openPages, results>>

vars == <<extractorVars, popupVars, serverVars>>

\* the tool calls the server can be running at once
Calls == {"first", "second"}

NoFile == [page |-> "", type |-> "none"]
NoBrowser == 0
NoPage == <<"null">>

\* the popup has not been opened
PopupClosed ==
    /\ detectedSections = <<>>
    /\ selectedFormat = "markdown"
    /\ checked = {}
    /\ tabUrl = ""
    /\ popupPc = "closed"
    /\ selectedSections = <<>>
    /\ visits = <<>>
    /\ allContent = <<>>
    /\ downloadQueue = <<>>
    /\ isProcessingQueue = FALSE
    /\ loops = 0
    /\ inFlight = NoFile
    /\ downloads = <<>>
    /\ clicks = 0

\* the server has been started and no tool has been called
ServerIdle ==
    /\ browser = NoBrowser
    /\ connected = {}
    /\ launched = 0
    /\ pc = [c \in Calls |-> "idle"]
    /\ browserInstance = [c \in Calls |-> NoBrowser]
    /\ urls = [c \in Calls |-> <<>>]
    /\ position = [c \in Calls |-> 1]
    /\ page = [c \in Calls |-> NoPage]
    /\ openPages = {}
    /\ results = [c \in Calls |-> <<>>]

-----------------------------------------------------------------------------
(* String primitives (ECMAScript String.prototype).                         *)

UpperChars == <<"A","B","C","D","E","F","G","H","I","J","K","L","M",
                "N","O","P","Q","R","S","T","U","V","W","X","Y","Z">>
LowerChars == <<"a","b","c","d","e","f","g","h","i","j","k","l","m",
                "n","o","p","q","r","s","t","u","v","w","x","y","z">>

ToLowerChar(c) ==
    IF \E i \in DOMAIN UpperChars : UpperChars[i] = c
    THEN LowerChars[CHOOSE i \in DOMAIN UpperChars : UpperChars[i] = c]
    ELSE c

\* String.prototype.toLowerCase
ToLowerCase(s) == [i \in DOMAIN s |-> ToLowerChar(s[i])]

\* String.prototype.startsWith
StartsWith(s, p) == Len(s) >= Len(p) /\ SubSeq(s, 1, Len(p)) = p

\* String.prototype.endsWith
EndsWith(s, p) == Len(s) >= Len(p) /\ SubSeq(s, Len(s) - Len(p) + 1, Len(s)) = p

\* the indices of s, in order, and those of them that satisfy Test
Indices(s) == [i \in 1..Len(s) |-> i]
IndicesWhere(s, Test(_)) == SelectSeq(Indices(s), Test)
\* the first of hits, none when there is no hit
FirstOr(hits, none) == IF hits = <<>> THEN none ELSE hits[1]

\* String.prototype.indexOf, 1-based; 0 when p does not occur in s
IndexOf(s, p) ==
    FirstOr(IndicesWhere(s, LAMBDA i : i + Len(p) - 1 <= Len(s)
                                        /\ SubSeq(s, i, i + Len(p) - 1) = p), 0)

\* String.prototype.includes
Includes(s, p) == IndexOf(s, p) # 0

\* String.prototype.replace with a string pattern: the first occurrence only
ReplaceAt(s, i, n, r) ==
    IF i = 0 THEN s ELSE SubSeq(s, 1, i - 1) \o r \o SubSeq(s, i + n, Len(s))
ReplaceFirst(s, p, r) == ReplaceAt(s, IndexOf(s, p), Len(p), r)

\* the pieces of s between the separators, which start at sepStarts[k] and end at sepEnds[k]
PiecesBetween(s, sepStarts, sepEnds) ==
    [k \in 1..(Len(sepStarts) + 1) |->
        SubSeq(s, IF k = 1 THEN 1 ELSE sepEnds[k - 1] + 1,
                  IF k = Len(sepStarts) + 1 THEN Len(s) ELSE sepStarts[k] - 1)]

\* String.prototype.split with a one-character separator
SplitAtEach(s, at) == PiecesBetween(s, at, at)
SplitOn(s, sep) == SplitAtEach(s, IndicesWhere(s, LAMBDA i : s[i] = sep))

IsSpace(c) == c \in {" ", "\n", "\t"}

\* String.prototype.trim
Span(s, solid) == IF solid = <<>> THEN <<>> ELSE SubSeq(s, solid[1], solid[Len(solid)])
Trim(s) == Span(s, IndicesWhere(s, LAMBDA i : ~IsSpace(s[i])))

\* String.prototype.split(/\s+/): the pieces between the maximal runs of white space
SplitWs(s) ==
    PiecesBetween(s,
        IndicesWhere(s, LAMBDA i : IsSpace(s[i]) /\ (i = 1 \/ ~IsSpace(s[i - 1]))),
        IndicesWhere(s, LAMBDA i : IsSpace(s[i]) /\ (i = Len(s) \/ ~IsSpace(s[i + 1]))))

\* String.prototype.replace(/\s+/g, ' '): every maximal run of white space becomes one space
SpacesAt(s, kept) == [k \in DOMAIN kept |-> IF IsSpace(s[kept[k]]) THEN " " ELSE s[kept[k]]]
CollapseWs(s) ==
    SpacesAt(s, IndicesWhere(s, LAMBDA i : ~IsSpace(s[i]) \/ i = 1 \/ ~IsSpace(s[i - 1])))

RECURSIVE Concat(_)
Concat(ss) == IF ss = <<>> THEN <<>> ELSE Head(ss) \o Concat(Tail(ss))

\* Array.prototype.join
RECURSIVE Join(_, _)
Join(ss, sep) ==
    IF ss = <<>> THEN <<>>
    ELSE IF Len(ss) = 1 THEN ss[1]
         ELSE ss[1] \o sep \o Join(Tail(ss), sep)

-----------------------------------------------------------------------------
(* String constants: each is the string in the comment, one character per element.  *)
(* "BT" stands for the backtick character, which a TLA+ string cannot hold.         *)
s_main == <<"m","a","i","n">>  \* 'main'
s_main_content == <<"m","a","i","n","-","c","o","n","t","e","n","t">>  \* 'main-content'
s_content == <<"c","o","n","t","e","n","t">>  \* 'content'
s_post_content == <<"p","o","s","t","-","c","o","n","t","e","n","t">>  \* 'post-content'
s_article_content == <<"a","r","t","i","c","l","e","-","c","o","n","t","e","n","t">>  \* 'article-content'
s_documentation == <<"d","o","c","u","m","e","n","t","a","t","i","o","n">>  \* 'documentation'
s_docs_content == <<"d","o","c","s","-","c","o","n","t","e","n","t">>  \* 'docs-content'
s_markdown_body == <<"m","a","r","k","d","o","w","n","-","b","o","d","y">>  \* 'markdown-body'
s_prose == <<"p","r","o","s","e">>  \* 'prose'
s_nav == <<"n","a","v">>  \* 'nav'
s_navigation == <<"n","a","v","i","g","a","t","i","o","n">>  \* 'navigation'
s_sidebar == <<"s","i","d","e","b","a","r">>  \* 'sidebar'
s_footer == <<"f","o","o","t","e","r">>  \* 'footer'
s_header == <<"h","e","a","d","e","r">>  \* 'header'
s_menu == <<"m","e","n","u">>  \* 'menu'
s_toc == <<"t","o","c">>  \* 'toc'
s_table_of_contents == <<"t","a","b","l","e","-","o","f","-","c","o","n","t","e","n","t","s">>  \* 'table-of-contents'
s_ad == <<"a","d">>  \* 'ad'
s_advertisement == <<"a","d","v","e","r","t","i","s","e","m","e","n","t">>  \* 'advertisement'
s_cookie == <<"c","o","o","k","i","e">>  \* 'cookie'
s_popup == <<"p","o","p","u","p">>  \* 'popup'
s_modal == <<"m","o","d","a","l">>  \* 'modal'
s_banner == <<"b","a","n","n","e","r">>  \* 'banner'
s_contentinfo == <<"c","o","n","t","e","n","t","i","n","f","o">>  \* 'contentinfo'
s_complementary == <<"c","o","m","p","l","e","m","e","n","t","a","r","y">>  \* 'complementary'
s_null_container == <<"n","u","l","l">>  \* the TypeError of a property read on null
s_Invalid_URL == <<"I","n","v","a","l","i","d"," ","U","R","L">>  \* 'Invalid URL'
s_Docs == <<"D","o","c","s">>  \* 'Docs'
s_ogCOLtitle == <<"o","g",":","t","i","t","l","e">>  \* 'og:title'
s_true == <<"t","r","u","e">>  \* 'true'
s_BARSP == <<"|"," ">>  \* '| '
s_SPBARSP == <<" ","|"," ">>  \* ' | '
s_SPBAR == <<" ","|">>  \* ' |'
s____ == <<"-","-","-">>  \* '---'
s_NLNL == <<"\n","\n">>  \* '\n\n'
s_NL == <<"\n">>  \* '\n'
s_DOTSP == <<"."," ">>  \* '. '
s__SP == <<"-"," ">>  \* '- '
s_SP == <<" ">>  \* ' '
s_STARSTAR == <<"*","*">>  \* '**'
s_STAR == <<"*">>  \* '*'
s_TICK == <<"BT">>  \* '(backtick)'
s_NLNLTICKTICKTICK == <<"\n","\n","BT","BT","BT">>  \* '\n\n(backtick)(backtick)(backtick)'
s_NLTICKTICKTICKNLNL == <<"\n","BT","BT","BT","\n","\n">>  \* '\n(backtick)(backtick)(backtick)\n\n'
s_LB == <<"[">>  \* '['
s_RBLP == <<"]","(">>  \* ']('
s_RP == <<")">>  \* ')'
s_GTSP == <<">"," ">>  \* '> '
s_image == <<"i","m","a","g","e">>  \* 'image'
s_BANGLB == <<"!","[">>  \* '!['
s_NLNL___NLNL == <<"\n","\n","-","-","-","\n","\n">>  \* '\n\n---\n\n'
s_cookie_banner == <<"c","o","o","k","i","e","-","b","a","n","n","e","r">>  \* 'cookie-banner'
s_httpsCOLSLSLxDOTcomSLdoc == <<"h","t","t","p","s",":","/","/","x",".","c","o","m","/","d","o","c">>  \* 'https://x.com/doc'
s_none == <<"n","o","n","e">>  \* 'none'
s_intro == <<"i","n","t","r","o">>  \* 'intro'
s_language_python == <<"l","a","n","g","u","a","g","e","-","p","y","t","h","o","n">>  \* 'language-python'
s_printLP1RP == <<"p","r","i","n","t","(","1",")">>  \* 'print(1)'
s_httpsCOLSLSLLB == <<"h","t","t","p","s",":","/","/","[">>  \* 'https://['
s_SLother_page == <<"/","o","t","h","e","r","-","p","a","g","e">>  \* '/other-page'
s_go == <<"g","o">>  \* 'go'
s_language_Python == <<"l","a","n","g","u","a","g","e","-","P","y","t","h","o","n">>  \* 'language-Python'
s_lang_js == <<"l","a","n","g","-","j","s">>  \* 'lang-js'
s_python == <<"p","y","t","h","o","n">>  \* 'python'
s_Python == <<"P","y","t","h","o","n">>  \* 'Python'
s_hljs == <<"h","l","j","s">>  \* 'hljs'
s_language_ == <<"l","a","n","g","u","a","g","e","-">>  \* 'language-'
s_c == <<"c">>  \* 'c'
s_docs_sidebar == <<"d","o","c","s","-","s","i","d","e","b","a","r">>  \* 'docs-sidebar'
s_docs == <<"d","o","c","s">>  \* 'docs'
s_documentation_nav == <<"d","o","c","u","m","e","n","t","a","t","i","o","n","-","n","a","v">>  \* 'documentation-nav'
s_doc_nav == <<"d","o","c","-","n","a","v">>  \* 'doc-nav'
s_docs_menu == <<"d","o","c","s","-","m","e","n","u">>  \* 'docs-menu'
s_nav_link == <<"n","a","v","-","l","i","n","k">>  \* 'nav-link'
s_theme_doc_sidebar_menu == <<"t","h","e","m","e","-","d","o","c","-","s","i","d","e","b","a","r","-","m","e","n","u">>  \* 'theme-doc-sidebar-menu'
s_menu__link == <<"m","e","n","u","_","_","l","i","n","k">>  \* 'menu__link'
s_docSidebarContainer == <<"d","o","c","S","i","d","e","b","a","r","C","o","n","t","a","i","n","e","r">>  \* 'docSidebarContainer'
s_docSidebar == <<"d","o","c","S","i","d","e","b","a","r">>  \* 'docSidebar'
s_docs_sidebar_nav == <<"d","o","c","s","-","s","i","d","e","b","a","r","-","n","a","v">>  \* 'docs-sidebar-nav'
s_VPSidebar == <<"V","P","S","i","d","e","b","a","r">>  \* 'VPSidebar'
s_VPSidebarItem == <<"V","P","S","i","d","e","b","a","r","I","t","e","m">>  \* 'VPSidebarItem'
s_vp_sidebar == <<"v","p","-","s","i","d","e","b","a","r">>  \* 'vp-sidebar'
s_VPNavBar == <<"V","P","N","a","v","B","a","r">>  \* 'VPNavBar'
s_sidebar_links == <<"s","i","d","e","b","a","r","-","l","i","n","k","s">>  \* 'sidebar-links'
s_gitbook_navigation == <<"g","i","t","b","o","o","k","-","n","a","v","i","g","a","t","i","o","n">>  \* 'gitbook-navigation'
s_css_175oi2r == <<"c","s","s","-","1","7","5","o","i","2","r">>  \* 'css-175oi2r'
s_sidebar_navigation == <<"s","i","d","e","b","a","r","-","n","a","v","i","g","a","t","i","o","n">>  \* 'sidebar-navigation'
s_md_nav == <<"m","d","-","n","a","v">>  \* 'md-nav'
s_md_sidebar == <<"m","d","-","s","i","d","e","b","a","r">>  \* 'md-sidebar'
s_md_nav__link == <<"m","d","-","n","a","v","_","_","l","i","n","k">>  \* 'md-nav__link'
s_rst_content == <<"r","s","t","-","c","o","n","t","e","n","t">>  \* 'rst-content'
s_toctree == <<"t","o","c","t","r","e","e">>  \* 'toctree'
s_wy_menu == <<"w","y","-","m","e","n","u">>  \* 'wy-menu'
s_wy_nav_side == <<"w","y","-","n","a","v","-","s","i","d","e">>  \* 'wy-nav-side'
s_sphinxsidebar == <<"s","p","h","i","n","x","s","i","d","e","b","a","r">>  \* 'sphinxsidebar'
s_nextra_sidebar == <<"n","e","x","t","r","a","-","s","i","d","e","b","a","r">>  \* 'nextra-sidebar'
s_nextra_toc == <<"n","e","x","t","r","a","-","t","o","c">>  \* 'nextra-toc'
s_mintlify_sidebar == <<"m","i","n","t","l","i","f","y","-","s","i","d","e","b","a","r">>  \* 'mintlify-sidebar'
s_notion_table_of_contents == <<"n","o","t","i","o","n","-","t","a","b","l","e","_","o","f","_","c","o","n","t","e","n","t","s">>  \* 'notion-table_of_contents'
s_sidebar_nav == <<"s","i","d","e","b","a","r","-","n","a","v">>  \* 'sidebar-nav'
s_td_sidebar_menu == <<"t","d","-","s","i","d","e","b","a","r","-","m","e","n","u">>  \* 'td-sidebar-menu'
s_td_sidebar_nav == <<"t","d","-","s","i","d","e","b","a","r","-","n","a","v">>  \* 'td-sidebar-nav'
s_sidebar_content == <<"s","i","d","e","b","a","r","-","c","o","n","t","e","n","t">>  \* 'sidebar-content'
s_bd_sidebar == <<"b","d","-","s","i","d","e","b","a","r">>  \* 'bd-sidebar'
s_docs_toc == <<"d","o","c","s","-","t","o","c">>  \* 'docs-toc'
s_doc_sidebar == <<"d","o","c","-","s","i","d","e","b","a","r">>  \* 'doc-sidebar'
s_pdf == <<"p","d","f">>  \* 'pdf'
s_zip == <<"z","i","p">>  \* 'zip'
s_tar == <<"t","a","r">>  \* 'tar'
s_gz == <<"g","z">>  \* 'gz'
s_exe == <<"e","x","e">>  \* 'exe'
s_dmg == <<"d","m","g">>  \* 'dmg'
s_pkg == <<"p","k","g">>  \* 'pkg'
s_top_nav == <<"t","o","p","-","n","a","v">>  \* 'top-nav'
s_main_nav == <<"m","a","i","n","-","n","a","v">>  \* 'main-nav'
s_navbar == <<"n","a","v","b","a","r">>  \* 'navbar'
s_footer_nav == <<"f","o","o","t","e","r","-","n","a","v">>  \* 'footer-nav'
s_SLa == <<"/","a">>  \* '/a'
s_SLaSL == <<"/","a","/">>  \* '/a/'
s_SLaHASHs == <<"/","a","#","s">>  \* '/a#s'
s_httpsCOLSLSLxDOTcomDOTevilDOTorgSLa == <<"h","t","t","p","s",":","/","/","x",".","c","o","m",".","e","v","i","l",".","o","r","g","/","a">>  \* 'https://x.com.evil.org/a'
s_Guide == <<"G","u","i","d","e">>  \* 'Guide'
s_SLp1 == <<"/","p","1">>  \* '/p1'
s_SLp2 == <<"/","p","2">>  \* '/p2'
s_SLp3 == <<"/","p","3">>  \* '/p3'
s_SLp4 == <<"/","p","4">>  \* '/p4'
s_HASHs == <<"#","s">>  \* '#s'
s_SLdoc == <<"/","d","o","c">>  \* '/doc'
s_SLfileDOTpdfQvEQ1 == <<"/","f","i","l","e",".","p","d","f","?","v","=","1">>  \* '/file.pdf?v=1'
s_SLp5 == <<"/","p","5">>  \* '/p5'
s_SLp6 == <<"/","p","6">>  \* '/p6'
s_SLt0SL == <<"/","t","0","/">>  \* '/t0/'
s_SLt0 == <<"/","t","0">>  \* '/t0'
s_SLt1 == <<"/","t","1">>  \* '/t1'
s_SLn1 == <<"/","n","1">>  \* '/n1'
s_SLn2 == <<"/","n","2">>  \* '/n2'
s_SLn3 == <<"/","n","3">>  \* '/n3'
s_SLb == <<"/","b">>  \* '/b'
s_SLp7 == <<"/","p","7">>  \* '/p7'
s_httpsCOLSLSLotherDOTorgSLx == <<"h","t","t","p","s",":","/","/","o","t","h","e","r",".","o","r","g","/","x">>  \* 'https://other.org/x'
s_httpsCOLSLSLotherDOTorgSLy == <<"h","t","t","p","s",":","/","/","o","t","h","e","r",".","o","r","g","/","y">>  \* 'https://other.org/y'
s_httpsCOLSLSLxDOTcom == <<"h","t","t","p","s",":","/","/","x",".","c","o","m">>  \* 'https://x.com'
s_httpsCOLSLSLXDOTcomCOL443 == <<"h","t","t","p","s",":","/","/","X",".","c","o","m",":","4","4","3">>  \* 'https://X.com:443'
s_QqEQ1 == <<"?","q","=","1">>  \* '?q=1'
s_QqEQ1HASHs == <<"?","q","=","1","#","s">>  \* '?q=1#s'
s_xDOTcomSLaSL == <<"x",".","c","o","m","/","a","/">>  \* 'x.com/a/'
s_SLaSLHASHs == <<"/","a","/","#","s">>  \* '/a/#s'
s_false == <<"f","a","l","s","e">>  \* 'false'
s_SLdocSL == <<"/","d","o","c","/">>  \* '/doc/'
s_SLdocSLSL == <<"/","d","o","c","/","/">>  \* '/doc//'

-----------------------------------------------------------------------------
(* Language hints.                                                          *)

LanguagePrefix == <<"l","a","n","g","u","a","g","e","-">>
LangPrefix     == <<"l","a","n","g","-">>

\* the alternatives of the allow-list pattern of extractCodeBlocks
LangNames == {
    <<"j","a","v","a","s","c","r","i","p","t">>,
    <<"t","y","p","e","s","c","r","i","p","t">>,
    <<"p","y","t","h","o","n">>,
    <<"r","u","b","y">>,
    <<"g","o">>,
    <<"r","u","s","t">>,
    <<"j","a","v","a">>,
    <<"c","p","p">>,
    <<"c">>,
    <<"b","a","s","h">>,
    <<"s","h","e","l","l">>,
    <<"j","s","o","n">>,
    <<"y","a","m","l">>,
    <<"h","t","m","l">>,
    <<"c","s","s">>,
    <<"s","q","l">>,
    <<"k","o","t","l","i","n">>,
    <<"s","w","i","f","t">> }

\* cls.match(/^(javascript|...|swift)$/i)
LangMatch(cls) == ToLowerCase(cls) \in LangNames

\* the loop over classes in extractCodeBlocks, from token i on
RECURSIVE BlockLanguageFrom(_, _)
BlockLanguageFrom(classes, i) ==
    IF i > Len(classes) THEN <<>>
    ELSE LET cls == classes[i]
         IN IF StartsWith(cls, LanguagePrefix) THEN ReplaceFirst(cls, LanguagePrefix, <<>>)
            ELSE IF StartsWith(cls, LangPrefix) THEN ReplaceFirst(cls, LangPrefix, <<>>)
            ELSE IF LangMatch(cls) THEN ToLowerCase(cls)
            ELSE BlockLanguageFrom(classes, i + 1)

\* the language extractCodeBlocks gives a code element with this class attribute
BlockLanguage(cn) == BlockLanguageFrom(SplitOn(cn, " "), 1)

\* the loop over classes in detectLanguageFromElement, from token i on
RECURSIVE FenceLanguageFrom(_, _)
FenceLanguageFrom(classes, i) ==
    IF i > Len(classes) THEN <<>>
    ELSE LET cls == classes[i]
         IN IF StartsWith(cls, LanguagePrefix) THEN ReplaceFirst(cls, LanguagePrefix, <<>>)
            ELSE IF StartsWith(cls, LangPrefix) THEN ReplaceFirst(cls, LangPrefix, <<>>)
            ELSE FenceLanguageFrom(classes, i + 1)

detectLanguageFromElement(cn) == FenceLanguageFrom(SplitOn(cn, " "), 1)

-----------------------------------------------------------------------------
(* The DOM.  A tree is the sequence of its nodes in document order; every   *)
(* node records its depth, so the subtree of node i is the run of nodes     *)
(* after i that lie deeper than i.  Text nodes have tag "#text".            *)

\* the value of an attribute the element does not have (getAttribute -> null)
Null == <<"null">>

\* an element with the given attributes (a record, <<>> for none), a text node with the given data
El(tag, attrs) ==
    [tag |-> tag, depth |-> 0, attrs |-> [a \in DOMAIN attrs |-> attrs[a]], text |-> <<>>]
Text(data) == [tag |-> "#text", depth |-> 0, attrs |-> [a \in {} |-> Null], text |-> data]
At(node, d) == [node EXCEPT !.depth = d]

\* the least and the greatest member of a set of numbers, none when the set is empty
MinOr(S, none) == IF S = {} THEN none ELSE CHOOSE k \in S : \A m \in S : k <= m
MaxOr(S, none) == IF S = {} THEN none ELSE CHOOSE k \in S : \A m \in S : m <= k
\* the elements of a sequence
Range(seq) == {seq[k] : k \in DOMAIN seq}

IsElement(n) == n.tag # "#text"
HasAttr(n, a) == a \in DOMAIN n.attrs
\* Element.getAttribute
Attr(n, a) == IF HasAttr(n, a) THEN n.attrs[a] ELSE Null

\* index of the last node of the subtree rooted at i
SubtreeEnd(t, i) == MinOr({k \in (i + 1)..Len(t) : t[k].depth <= t[i].depth}, Len(t) + 1) - 1

Descendants(t, i) == (i + 1)..SubtreeEnd(t, i)
\* the nodes whose subtree holds i: every node from them up to i lies deeper than they do
Ancestors(t, i) == {j \in 1..(i - 1) : \A k \in (j + 1)..i : t[k].depth > t[j].depth}

\* Node.parentElement: 0 when there is none
ParentElement(t, i) == MaxOr(Ancestors(t, i), 0)
\* the parent (0 when there is none) is an element with one of the tags
ParentTagIn(t, parent, tags) == parent # 0 /\ t[parent].tag \in tags

\* the members of a set of indices of t, in document order
InOrder(t, S) == SelectSeq([i \in 1..Len(t) |-> i], LAMBDA i : i \in S)

\* Node.childNodes / Element.children
ChildNodes(t, i) == InOrder(t, {j \in Descendants(t, i) : t[j].depth = t[i].depth + 1})
Children(t, i) == InOrder(t, {j \in Descendants(t, i) :
                              t[j].depth = t[i].depth + 1 /\ IsElement(t[j])})

\* Node.textContent: the data of the text nodes of the subtree, concatenated
RECURSIVE TextFrom(_, _, _)
TextFrom(t, i, last) ==
    IF i > last THEN <<>> ELSE t[i].text \o TextFrom(t, i + 1, last)
TextContent(t, i) == TextFrom(t, i, SubtreeEnd(t, i))

\* the subtree rooted at i as a tree of its own (its root at depth 0)
Subtree(t, i) ==
    [k \in 1..(SubtreeEnd(t, i) - i + 1) |->
        [t[i + k - 1] EXCEPT !.depth = t[i + k - 1].depth - t[i].depth]]

\* the tree without the nodes whose index is in gone
RECURSIVE Without(_, _)
Without(t, gone) ==
    IF t = <<>> THEN <<>>
    ELSE LET rest == Without(SubSeq(t, 1, Len(t) - 1), gone)
         IN IF Len(t) \in gone THEN rest ELSE Append(rest, t[Len(t)])

-----------------------------------------------------------------------------
(* CSS selectors.  A compound selector tests one element; a complex         *)
(* selector is a sequence of compounds joined by the descendant combinator  *)
(* (the only combinator the code uses); a selector list is a sequence of    *)
(* complex selectors.                                                       *)

Compound(tag, classes, id, tests) ==
    [tag |-> tag, classes |-> classes, id |-> id, tests |-> tests]
Tag(tag)       == Compound(tag, {}, Null, {})
Class(c)       == Compound("*", {c}, Null, {})
TagClass(t, c) == Compound(t, {c}, Null, {})
Id(i)          == Compound("*", {}, i, {})
\* [name], [name="value"], [name*="value"]
AttrHas(a)         == Compound("*", {}, Null, {[name |-> a, op |-> "has", value |-> <<>>]})
AttrEq(a, v)       == Compound("*", {}, Null, {[name |-> a, op |-> "eq", value |-> v]})
AttrContains(a, v) == Compound("*", {}, Null, {[name |-> a, op |-> "contains", value |-> v]})
TagAttrHas(t, a)   == Compound(t, {}, Null, {[name |-> a, op |-> "has", value |-> <<>>]})
TagAttrEq(t, a, v) == Compound(t, {}, Null, {[name |-> a, op |-> "eq", value |-> v]})

\* Element.classList: the white-space separated tokens of the class attribute
ClassList(n) ==
    IF ~HasAttr(n, "class") THEN {} ELSE Range(SplitWs(Attr(n, "class"))) \ {<<>>}

\* Element.className, Element.id: the attribute, or "" when it is absent
ClassNameOf(n) == IF HasAttr(n, "class") THEN Attr(n, "class") ELSE <<>>
IdOf(n) == IF HasAttr(n, "id") THEN Attr(n, "id") ELSE <<>>

TestHolds(n, test) ==
    /\ HasAttr(n, test.name)
    /\ CASE test.op = "has" -> TRUE
         [] test.op = "eq" -> Attr(n, test.name) = test.value
         [] test.op = "contains" -> test.value # <<>> /\ Includes(Attr(n, test.name), test.value)

MatchesCompound(n, c) ==
    /\ IsElement(n)
    /\ c.tag \in {"*", n.tag}
    /\ c.classes \subseteq ClassList(n)
    /\ (c.id # Null => Attr(n, "id") = c.id)
    /\ \A test \in c.tests : TestHolds(n, test)

\* element i matches the first k compounds of the complex selector sel
RECURSIVE MatchesUpTo(_, _, _, _)
MatchesUpTo(t, i, sel, k) ==
    /\ MatchesCompound(t[i], sel[k])
    /\ (k > 1 => \E j \in Ancestors(t, i) : MatchesUpTo(t, j, sel, k - 1))

Matches(t, i, selList) ==
    \E s \in DOMAIN selList : MatchesUpTo(t, i, selList[s], Len(selList[s]))

\* scope.querySelectorAll(selList); scope 0 is the document itself
QuerySelectorAll(t, scope, selList) ==
    LET within == IF scope = 0 THEN 1..Len(t) ELSE Descendants(t, scope)
    IN InOrder(t, {i \in within : Matches(t, i, selList)})

\* scope.querySelector(selList): 0 when nothing matches
QuerySelector(t, scope, selList) == FirstOr(QuerySelectorAll(t, scope, selList), 0)

-----------------------------------------------------------------------------
(* URLs (the platform's URL class), for the https scheme.  Inputs are       *)
(* absolute ("https://host:port/path?query#fragment"), scheme-relative      *)
(* ("//host/path"), path-absolute ("/path"), query-only, fragment-only,     *)
(* empty, or a relative path; dot segments, percent-encoding, credentials   *)
(* and other schemes are outside the strings the model draws.               *)

HttpsColon  == <<"h","t","t","p","s",":">>
SlashSlash  == <<"/","/">>
DefaultPort == <<"4","4","3">>
Digits      == {"0","1","2","3","4","5","6","7","8","9"}
\* code points a host may not contain (the subset that occurs in the model's inputs)
ForbiddenHostChars == {"[", "]", " ", "<", ">", "^", "|", "%", "@", "\\"}

InvalidUrl == [ok |-> FALSE]

\* smallest index of s holding a character of stops, Len(s) + 1 when there is none
FirstOf(s, stops) == FirstOr(IndicesWhere(s, LAMBDA i : s[i] \in stops), Len(s) + 1)

\* "?query" and "#fragment" of the tail of a URL string that follows the path
QueryOf(rest) ==
    IF rest # <<>> /\ Head(rest) = "?"
    THEN SubSeq(rest, 2, FirstOf(rest, {"#"}) - 1) ELSE Null
FragmentAt(rest, h) == IF h > Len(rest) THEN Null ELSE SubSeq(rest, h + 1, Len(rest))
FragmentOf(rest) == FragmentAt(rest, FirstOf(rest, {"#"}))

\* the URL of a lower-cased host, a port string, a path and the tail that follows the path
UrlOf(host, portS, path, rest) ==
    IF host = <<>> \/ (\E i \in DOMAIN host : host[i] \in ForbiddenHostChars)
          \/ (\E i \in DOMAIN portS : portS[i] \notin Digits)
    THEN InvalidUrl
    ELSE [ok |-> TRUE, host |-> host,
          port |-> IF portS = <<>> \/ portS = DefaultPort THEN Null ELSE portS,
          path |-> IF path = <<>> THEN <<"/">> ELSE path,
          query |-> QueryOf(rest), fragment |-> FragmentOf(rest)]

\* the authority "host:port", whose colon is at index colon, and what follows it, whose
\* path ends before index pEnd
AuthorityAndAfter(auth, colon, after, pEnd) ==
    UrlOf(ToLowerCase(SubSeq(auth, 1, colon - 1)), SubSeq(auth, colon + 1, Len(auth)),
          SubSeq(after, 1, pEnd - 1), SubSeq(after, pEnd, Len(after)))

SplitAuthority(auth, after) ==
    AuthorityAndAfter(auth, FirstOf(auth, {":"}), after, FirstOf(after, {"?", "#"}))

SplitAt(s, aEnd) == SplitAuthority(SubSeq(s, 1, aEnd - 1), SubSeq(s, aEnd, Len(s)))

\* the part of a URL string from its authority on: "host:port/path?query#fragment"
ParseFromAuthority(s) == SplitAt(s, FirstOf(s, {"/", "?", "#"}))

HasScheme(s) == StartsWith(ToLowerCase(s), HttpsColon)

\* new URL(s): a string without a scheme does not parse
ParseUrl(s) ==
    IF HasScheme(s) /\ StartsWith(SubSeq(s, Len(HttpsColon) + 1, Len(s)), SlashSlash)
    THEN ParseFromAuthority(SubSeq(s, Len(HttpsColon) + 3, Len(s)))
    ELSE InvalidUrl

\* the directory of a path: the path up to and including its last "/"
DirOf(path) == SubSeq(path, 1, MaxOr({i \in DOMAIN path : path[i] = "/"}, 0))

\* a relative reference s, whose path ends before index pEnd, resolved against base
ResolveRelative(s, base, pEnd) ==
    [base EXCEPT !.path = IF Head(s) = "/" THEN SubSeq(s, 1, pEnd - 1)
                          ELSE DirOf(base.path) \o SubSeq(s, 1, pEnd - 1),
                 !.query = QueryOf(SubSeq(s, pEnd, Len(s))),
                 !.fragment = FragmentOf(SubSeq(s, pEnd, Len(s)))]

\* new URL(s, base): s resolved against the parsed URL base
ResolveUrl(s, base) ==
    IF HasScheme(s) THEN ParseUrl(s)
    ELSE IF StartsWith(s, SlashSlash) THEN ParseFromAuthority(SubSeq(s, 3, Len(s)))
    ELSE IF s = <<>> THEN [base EXCEPT !.fragment = Null]
    ELSE IF Head(s) = "#" THEN [base EXCEPT !.fragment = Tail(s)]
    ELSE IF Head(s) = "?" THEN [base EXCEPT !.query = QueryOf(s), !.fragment = FragmentOf(s)]
    ELSE ResolveRelative(s, base, FirstOf(s, {"?", "#"}))

\* URL.origin
OriginOf(u) ==
    HttpsColon \o SlashSlash \o u.host \o (IF u.port = Null THEN <<>> ELSE <<":">> \o u.port)

\* URL.href / URL.toString()
HrefOf(u) ==
    OriginOf(u) \o u.path
        \o (IF u.query = Null THEN <<>> ELSE <<"?">> \o u.query)
        \o (IF u.fragment = Null THEN <<>> ELSE <<"#">> \o u.fragment)

\* the pathname setter: the new path starts with "/"
SetPathname(u, p) ==
    [u EXCEPT !.path = IF p # <<>> /\ Head(p) = "/" THEN p ELSE <<"/">> \o p]

\* the hash setter with the empty string: the URL has no fragment
ClearHash(u) == [u EXCEPT !.fragment = Null]

\* the variant that removes every trailing slash of the pathname
StripAllSlashes(pathname) ==
    SubSeq(pathname, 1, MaxOr({i \in DOMAIN pathname : pathname[i] # "/"}, 1))


\* the pathname without one trailing slash, unless it is the root
StripSlash(pathname) ==
    IF EndsWith(pathname, <<"/">>) /\ Len(pathname) > 1
    THEN SubSeq(pathname, 1, Len(pathname) - 1)
    ELSE pathname

NormalizeParsed(url, parsed) ==
    IF ~parsed.ok THEN url
    ELSE HrefOf(SetPathname(ClearHash(parsed), StripSlash(ClearHash(parsed).path)))

\* normalizeUrl(url): remove the hash and one trailing slash; the input when it does not parse
normalizeUrl(url) == NormalizeParsed(url, ParseUrl(url))

-----------------------------------------------------------------------------
(* extractPage: the content region, the headings and the code blocks.       *)

\* document.body: the root of the document tree
Body == 1

\* the word-count threshold of hasSubstantialContent
SubstantialWords == 50
\* the weights of a paragraph and of a heading in findLargestContentArea's score
ParagraphWeight == 10
HeadingWeight == 20

\* text.trim().split(/\s+/).length
WordCount(text) == Len(SplitWs(Trim(text)))

\* a || b for elements (0 stands for null) and for strings
OrElse(a, b) == IF a # 0 THEN a ELSE b
OrString(a, b) == IF a # <<>> THEN a ELSE b

hasSubstantialContentAtLeast(t, el) == WordCount(TextContent(t, el)) >= SubstantialWords
hasSubstantialContent(t, el) == WordCount(TextContent(t, el)) > SubstantialWords

\* the selectors of getMainContent, in priority order
MainSelectors == <<
    <<Tag("main")>>, <<Tag("article")>>, <<AttrEq("role", s_main)>>,
    <<Class(s_main_content)>>, <<Class(s_content)>>, <<Id(s_content)>>,
    <<Class(s_post_content)>>, <<Class(s_article_content)>>,
    <<Class(s_documentation)>>, <<Class(s_docs_content)>>,
    <<Class(s_markdown_body)>>, <<Class(s_prose)>> >>

SkipTags == {"nav", "header", "footer", "aside"}
SkipClasses == {s_nav, s_navigation, s_sidebar, s_footer, s_header, s_menu,
                s_toc, s_table_of_contents, s_ad, s_advertisement, s_cookie,
                s_popup, s_modal}
SkipRoles == {s_navigation, s_banner, s_contentinfo, s_complementary}

isSkippableElement(n) ==
    \/ n.tag \in SkipTags
    \/ HasAttr(n, "role") /\ Attr(n, "role") # <<>> /\ Attr(n, "role") \in SkipRoles
    \/ \E skip \in SkipClasses :
          \/ Includes(ToLowerCase(ClassNameOf(n)), skip)
          \/ Includes(ToLowerCase(IdOf(n)), skip)

HeadingTags == {"h1", "h2", "h3", "h4", "h5", "h6"}
HeadingSelectors == <<<<Tag("h1")>>, <<Tag("h2")>>, <<Tag("h3")>>,
                      <<Tag("h4")>>, <<Tag("h5")>>, <<Tag("h6")>>>>

\* the score findLargestContentArea gives an element
ScoreOf(t, el) ==
    WordCount(TextContent(t, el))
        + Len(QuerySelectorAll(t, el, <<<<Tag("p")>>>>)) * ParagraphWeight
        + Len(QuerySelectorAll(t, el, HeadingSelectors)) * HeadingWeight

\* findLargestContentArea's loop with the comparison weakened to >=, so that a later element
\* of equal score replaces the earlier one
RECURSIVE LargestFromLast(_, _, _, _, _)
LargestFromLast(t, candidates, k, bestElement, maxScore) ==
    IF k > Len(candidates) THEN bestElement
    ELSE IF isSkippableElement(t[candidates[k]])
         THEN LargestFromLast(t, candidates, k + 1, bestElement, maxScore)
         ELSE LET Compare(score) ==
                      IF score >= maxScore
                      THEN LargestFromLast(t, candidates, k + 1, candidates[k], score)
                      ELSE LargestFromLast(t, candidates, k + 1, bestElement, maxScore)
              IN Compare(ScoreOf(t, candidates[k]))


\* the forEach of findLargestContentArea over candidates[k..], carrying bestElement and maxScore
RECURSIVE LargestFrom(_, _, _, _, _)
LargestFrom(t, candidates, k, bestElement, maxScore) ==
    IF k > Len(candidates) THEN bestElement
    ELSE IF isSkippableElement(t[candidates[k]])
         THEN LargestFrom(t, candidates, k + 1, bestElement, maxScore)
         ELSE LET Compare(score) ==
                      IF score > maxScore
                      THEN LargestFrom(t, candidates, k + 1, candidates[k], score)
                      ELSE LargestFrom(t, candidates, k + 1, bestElement, maxScore)
              IN Compare(ScoreOf(t, candidates[k]))

\* 0 stands for null
findLargestContentArea(t) ==
    LargestFrom(t, QuerySelectorAll(t, 0, <<<<Tag("div")>>, <<Tag("section")>>>>), 1, 0, 0)

\* the selector loop of getMainContent from selector k on: 0 when no selector qualifies
RECURSIVE IdiomFrom(_, _)
IdiomFrom(t, k) ==
    IF k > Len(MainSelectors) THEN 0
    ELSE LET Try(el) == IF el # 0 /\ hasSubstantialContent(t, el) THEN el
                        ELSE IdiomFrom(t, k + 1)
         IN Try(QuerySelector(t, 0, <<MainSelectors[k]>>))

getMainContentNoBody(t) == OrElse(IdiomFrom(t, 1), findLargestContentArea(t))

\* 0 stands for null
getMainContent(t) == OrElse(IdiomFrom(t, 1), OrElse(findLargestContentArea(t), Body))

\* getPageTitle: og:title, else the first h1's text, else document.title
DocumentTitle == s_Docs
TitleOf(t, meta, h1) ==
    IF meta # 0 /\ Attr(t[meta], "content") \notin {Null, <<>>} THEN Attr(t[meta], "content")
    ELSE IF h1 # 0 THEN OrString(Trim(TextContent(t, h1)), DocumentTitle)
    ELSE DocumentTitle
getPageTitle(t) ==
    TitleOf(t, QuerySelector(t, 0, <<<<TagAttrEq("meta", "property", s_ogCOLtitle)>>>>),
               QuerySelector(t, 0, <<<<Tag("h1")>>>>))

\* parseInt(el.tagName.charAt(1))
HeadingLevel(tag) ==
    CASE tag = "h1" -> 1 [] tag = "h2" -> 2 [] tag = "h3" -> 3
      [] tag = "h4" -> 4 [] tag = "h5" -> 5 [] tag = "h6" -> 6

HeadingOf(t, el) ==
    [level |-> HeadingLevel(t[el].tag),
     text |-> Trim(TextContent(t, el)),
     id |-> IF IdOf(t[el]) = <<>> THEN Null ELSE IdOf(t[el])]

HeadingsOf(t, headingEls) == [k \in DOMAIN headingEls |-> HeadingOf(t, headingEls[k])]
extractHeadings(t, container) == HeadingsOf(t, QuerySelectorAll(t, container, HeadingSelectors))

\* the element whose class and text extractCodeBlocks reads for the matched element el
CodeElOf(t, el) ==
    IF t[el].tag = "code" THEN el ELSE OrElse(QuerySelector(t, el, <<<<Tag("code")>>>>), el)

\* the forEach of extractCodeBlocks over codeEls[k..]
RECURSIVE CodeBlocksFrom(_, _, _)
CodeBlocksFrom(t, codeEls, k) ==
    IF k > Len(codeEls) THEN <<>>
    ELSE LET Block(language, code) ==
                 IF Len(code) > 0 THEN <<[language |-> language, code |-> code]>> ELSE <<>>
             BlockOf(codeEl) ==
                 Block(BlockLanguage(ClassNameOf(t[codeEl])), Trim(TextContent(t, codeEl)))
         IN BlockOf(CodeElOf(t, codeEls[k])) \o CodeBlocksFrom(t, codeEls, k + 1)

extractCodeBlocks(t, container) ==
    CodeBlocksFrom(t, QuerySelectorAll(t, container, <<<<Tag("pre"), Tag("code")>>, <<Tag("pre")>>>>), 1)

-----------------------------------------------------------------------------
(* convertToMarkdown and processNode.  A call either returns its Markdown   *)
(* (ok) or raises the TypeError of new URL (not ok).                        *)

Returned(md) == [ok |-> TRUE, md |-> md]
Thrown == [ok |-> FALSE, md |-> <<>>]

\* Number.prototype.toString for a natural number
RECURSIVE ToDecimal(_)
ToDecimal(n) ==
    LET digit == <<"0","1","2","3","4","5","6","7","8","9">>[(n % 10) + 1]
    IN IF n < 10 THEN <<digit>> ELSE Append(ToDecimal(n \div 10), digit)

\* '#'.repeat(level)
Hashes(level) == [k \in 1..level |-> "#"]

\* the variant that knows the hidden attribute only
isHiddenAttrOnly(n) == Attr(n, "hidden") # Null


isHidden(n) == Attr(n, "hidden") # Null \/ Attr(n, "aria-hidden") = s_true

\* the variant that forgets it has emitted the separator
RECURSIVE TableRowsFromEachHeader(_, _, _, _)
TableRowsFromEachHeader(t, rows, k, headerProcessed) ==
    IF k > Len(rows) THEN <<>>
    ELSE LET Line(texts) == s_BARSP \o Join(texts, s_SPBARSP) \o s_SPBAR
             Lines(line, separator, header) ==
                 (IF header THEN <<line, separator>> ELSE <<line>>)
                     \o TableRowsFromEachHeader(t, rows, k + 1, FALSE)
             Row(cells) ==
                 Lines(Line([c \in DOMAIN cells |-> Trim(TextContent(t, cells[c]))]),
                       Line([c \in DOMAIN cells |-> s____]),
                       ~headerProcessed
                           /\ (QuerySelector(t, rows[k], <<<<Tag("th")>>>>) # 0 \/ k = 1))
         IN Row(QuerySelectorAll(t, rows[k], <<<<Tag("th")>>, <<Tag("td")>>>>))


\* convertTableToMarkdown's forEach over rows[k..], carrying headerProcessed
RECURSIVE TableRowsFrom(_, _, _, _)
TableRowsFrom(t, rows, k, headerProcessed) ==
    IF k > Len(rows) THEN <<>>
    ELSE LET Line(texts) == s_BARSP \o Join(texts, s_SPBARSP) \o s_SPBAR
             Lines(line, separator, header) ==
                 (IF header THEN <<line, separator>> ELSE <<line>>)
                     \o TableRowsFrom(t, rows, k + 1, headerProcessed \/ header)
             Row(cells) ==
                 Lines(Line([c \in DOMAIN cells |-> Trim(TextContent(t, cells[c]))]),
                       Line([c \in DOMAIN cells |-> s____]),
                       ~headerProcessed
                           /\ (QuerySelector(t, rows[k], <<<<Tag("th")>>>>) # 0 \/ k = 1))
         IN Row(QuerySelectorAll(t, rows[k], <<<<Tag("th")>>, <<Tag("td")>>>>))

convertTableToMarkdown(t, table) ==
    LET Table(rows) ==
            IF Len(rows) = 0 THEN <<>>
            ELSE s_NLNL \o Join(TableRowsFrom(t, rows, 1, FALSE), s_NL) \o s_NLNL
    IN Table(QuerySelectorAll(t, table, <<<<Tag("tr")>>>>))

RECURSIVE processNode(_, _, _)
RECURSIVE ProcessAll(_, _, _)
RECURSIVE ListItems(_, _, _, _, _)

\* the Markdown of both, unless one of them raised
Both(first, rest) == IF first.ok /\ rest.ok THEN Returned(first.md \o rest.md) ELSE Thrown

\* Array.from(el.childNodes).map(processNode).join('') over nodes[1..]
ProcessAll(t, nodes, base) ==
    IF nodes = <<>> THEN Returned(<<>>)
    ELSE Both(processNode(t, Head(nodes), base), ProcessAll(t, Tail(nodes), base))

\* one prefixed item before the items that follow it, unless one of them raised
ItemThen(prefix, item, rest) ==
    IF item.ok /\ rest.ok THEN Returned(<<prefix \o Trim(item.md)>> \o rest.md) ELSE Thrown

\* the variant that numbers an item by its place among all element children of the list
RECURSIVE ListItemsByPlace(_, _, _, _, _)
ListItemsByPlace(t, lis, k, ordered, base) ==
    IF k > Len(lis) THEN Returned(<<>>)
    ELSE ItemThen(IF ordered
                  THEN ToDecimal(Len(SelectSeq(Children(t, ParentElement(t, lis[k])),
                                               LAMBDA c : c <= lis[k]))) \o s_DOTSP
                  ELSE s__SP,
                  processNode(t, lis[k], base),
                  ListItemsByPlace(t, lis, k + 1, ordered, base))


\* the map over the li children lis[k..] of a list: the prefixed items
ListItems(t, lis, k, ordered, base) ==
    IF k > Len(lis) THEN Returned(<<>>)
    ELSE ItemThen(IF ordered THEN ToDecimal(k) \o s_DOTSP ELSE s__SP,
                  processNode(t, lis[k], base), ListItems(t, lis, k + 1, ordered, base))

\* case 'pre'
Fence(t, codeEl) ==
    Returned(s_NLNLTICKTICKTICK \o detectLanguageFromElement(ClassNameOf(t[codeEl])) \o s_NL
                 \o Trim(TextContent(t, codeEl)) \o s_NLTICKTICKTICKNLNL)

\* case 'a'
LinkTo(text, absoluteUrl) ==
    IF absoluteUrl.ok THEN Returned(s_LB \o text \o s_RBLP \o HrefOf(absoluteUrl) \o s_RP)
    ELSE Thrown
Anchor(href, text, base) ==
    IF href \notin {Null, <<>>} /\ text # <<>> THEN LinkTo(text, ResolveUrl(href, base))
    ELSE Returned(text)

\* case 'ul', 'ol'
List(items) ==
    IF items.ok THEN Returned(s_NLNL \o Join(items.md, s_NL) \o s_NLNL) ELSE Thrown

\* case 'blockquote'
Quote(split) ==
    Returned(s_NLNL \o Join([k \in DOMAIN split |-> s_GTSP \o split[k]], s_NL) \o s_NLNL)

\* case 'img'
ImageAt(alt, absoluteSrc) ==
    IF absoluteSrc.ok THEN Returned(s_BANGLB \o alt \o s_RBLP \o HrefOf(absoluteSrc) \o s_RP)
    ELSE Thrown
Image(alt, src, base) ==
    IF src \notin {Null, <<>>}
    THEN ImageAt(IF alt \in {Null, <<>>} THEN s_image ELSE alt, ResolveUrl(src, base))
    ELSE Returned(<<>>)

\* the switch on the tag of element i, whose rendered child nodes are children
Switch(t, i, base, tag, children) ==
    CASE tag \in HeadingTags ->
         Returned(s_NLNL \o Hashes(HeadingLevel(tag)) \o s_SP \o Trim(children) \o s_NLNL)
      [] tag = "p" -> Returned(s_NLNL \o Trim(children) \o s_NLNL)
      [] tag = "br" -> Returned(s_NL)
      [] tag \in {"strong", "b"} -> Returned(s_STARSTAR \o Trim(children) \o s_STARSTAR)
      [] tag \in {"em", "i"} -> Returned(s_STAR \o Trim(children) \o s_STAR)
      [] tag = "code" ->
         IF ParentTagIn(t, ParentElement(t, i), {"pre"}) THEN Returned(children)
         ELSE Returned(s_TICK \o Trim(children) \o s_TICK)
      [] tag = "pre" -> Fence(t, OrElse(QuerySelector(t, i, <<<<Tag("code")>>>>), i))
      [] tag = "a" -> Anchor(Attr(t[i], "href"), Trim(children), base)
      [] tag \in {"ul", "ol"} ->
         List(ListItems(t, SelectSeq(Children(t, i), LAMBDA c : t[c].tag = "li"), 1,
                        tag = "ol", base))
      [] tag = "li" -> Returned(children)
      [] tag = "blockquote" -> Quote(SplitOn(Trim(children), "\n"))
      [] tag = "table" -> Returned(convertTableToMarkdown(t, i))
      [] tag = "img" -> Image(Attr(t[i], "alt"), Attr(t[i], "src"), base)
      [] tag = "hr" -> Returned(s_NLNL___NLNL)
      [] tag \in {"script", "style", "noscript", "svg"} -> Returned(<<>>)
      [] OTHER -> Returned(children)

\* element i, whose child nodes rendered to kids or raised
Element(t, i, base, kids) ==
    IF ~kids.ok THEN Thrown ELSE Switch(t, i, base, t[i].tag, kids.md)

processNode(t, i, base) ==
    IF t[i].tag = "#text" THEN Returned(CollapseWs(t[i].text))
    ELSE IF isHidden(t[i]) THEN Returned(<<>>)
    ELSE Element(t, i, base, ProcessAll(t, ChildNodes(t, i), base))

\* the selectors convertToMarkdown removes from the clone, in order
RemoveSelectors == <<
    <<Tag("nav")>>, <<Tag("script")>>, <<Tag("style")>>, <<Tag("noscript")>>, <<Tag("svg")>>,
    <<Tag("iframe")>>, <<Class(s_ad)>>, <<Class(s_advertisement)>>,
    <<Class(s_cookie_banner)>> >>

\* a reference to a node: the tree that holds it and its index there
Ref(h, i) == [h |-> h, i |-> i]

\* container.cloneNode(true): a copy of the subtree in the store, and a reference to its root
cloneNodeShared(heap, ref) == [heap |-> heap, ref |-> ref]
cloneNode(heap, ref) ==
    [heap |-> [heap EXCEPT !["clone"] = Subtree(heap[ref.h], ref.i)], ref |-> Ref("clone", 1)]

\* the nodes of the subtrees rooted at the members of els
SubtreesOf(t, els) == UNION {{els[k]} \cup Descendants(t, els[k]) : k \in DOMAIN els}

\* removeSelectors.forEach(sel => root.querySelectorAll(sel).forEach(el => el.remove())), from k on
RECURSIVE RemoveFrom(_, _, _)
RemoveFrom(t, root, k) ==
    IF k > Len(RemoveSelectors) THEN t
    ELSE RemoveFrom(Without(t, SubtreesOf(t, QuerySelectorAll(t, root, <<RemoveSelectors[k]>>))),
                    root, k + 1)

\* the store after the call, and what processNode(clone) returned or raised
convertToMarkdown(heap, container, base) ==
    LET Render(after, clone) ==
            [heap |-> after, result |-> processNode(after[clone.h], clone.i, base)]
        Strip(copy) ==
            Render([copy.heap EXCEPT ![copy.ref.h] =
                                        RemoveFrom(copy.heap[copy.ref.h], copy.ref.i, 1)],
                   copy.ref)
    IN Strip(cloneNode(heap, container))

-----------------------------------------------------------------------------
(* Documents.  The page builds its document node by node, in document      *)
(* order, from the palette of the specification, up to a maximal number of  *)
(* nodes under the body; the content script is asked to extract once it is  *)
(* built.                                                                   *)

\* the most nodes under the body: of the extraction and rendering specifications, and of
\* the region-selection specification
MaxNodes == 3
MaxSelectNodes == 3

VoidTags == {"#text", "br", "hr", "img", "meta"}

\* a node is well placed when its parent can have children
WellFormed(t) ==
    \A i \in 2..Len(t) : t[ParentElement(t, i)].tag \notin VoidTags

\* the trees that extend t by one more node, placed anywhere a next node in document order can go
Extend(t, palette) ==
    {u \in {Append(t, At(n, d)) : n \in palette, d \in 1..(t[Len(t)].depth + 1)} : WellFormed(u)}

BodyOnly == <<El("body", <<>>)>>

\* the page the content script runs in
PageUrl == s_httpsCOLSLSLxDOTcomSLdoc

EmptyStore == [doc |-> <<>>, clone |-> <<>>]
NoResponse == [success |-> FALSE, error |-> s_none]
\* the sections before the listener has answered
NoSections == <<[pending |-> TRUE]>>
Unset == <<"unset">>

-----------------------------------------------------------------------------
(* The EXTRACT_PAGE listener: extractPage and the response it sends.        *)

\* what the listener answers, the content region, and the node store the call leaves behind;
\* a null content region makes extractHeadings raise, and the listener answers with the error
extractPage(heap, href) ==
    LET Data(region, title, headings, codeBlocks, converted) ==
            [heap |-> converted.heap, mainContent |-> region,
             response |->
                 IF converted.result.ok
                 THEN [success |-> TRUE,
                       data |-> [title |-> title, url |-> href, content |-> converted.result.md,
                                 headings |-> headings, codeBlocks |-> codeBlocks]]
                 ELSE [success |-> FALSE, error |-> s_Invalid_URL]]
        From(region) ==
            IF region = 0
            THEN [heap |-> heap, mainContent |-> 0,
                  response |-> [success |-> FALSE, error |-> s_null_container]]
            ELSE Data(region, getPageTitle(heap["doc"]), extractHeadings(heap["doc"], region),
                      extractCodeBlocks(heap["doc"], region),
                      convertToMarkdown(heap, Ref("doc", region), ParseUrl(href)))
    IN From(getMainContent(heap["doc"]))

ExtractPage ==
    /\ LET Answer(call) ==
               /\ trees' = call.heap
               /\ response' = call.response
               /\ mainContent' = call.mainContent
       IN Answer(extractPage(trees, location))
    /\ UNCHANGED <<location, sections, className, blockLang, fenceLang,
                 unsupported, normalizedLocation, harvests,
                 popupVars, serverVars>>

\* the nodes of the extraction specification
ExtractPalette == {
    El("nav", <<>>), El("div", [class |-> s_ad]), El("h2", [id |-> s_intro]),
    El("pre", <<>>), El("code", [class |-> s_language_python]),
    Text(s_printLP1RP) }

\* the page appends one node of the palette to its document
AppendNode(palette, max) ==
    /\ response = NoResponse
    /\ Len(trees["doc"]) <= max
    /\ \E t \in Extend(trees["doc"], palette) : trees' = [trees EXCEPT !["doc"] = t]
    /\ UNCHANGED <<response, mainContent, location, sections, className, blockLang, fenceLang,
                 unsupported, normalizedLocation, harvests,
                 popupVars, serverVars>>

BuildPage == AppendNode(ExtractPalette, MaxNodes)

Init ==
    /\ trees = [EmptyStore EXCEPT !["doc"] = BodyOnly]
    /\ response = NoResponse
    /\ mainContent = 0
    /\ location = PageUrl
    /\ sections = NoSections
    /\ className = Unset
    /\ blockLang = Unset
    /\ fenceLang = Unset
    /\ unsupported = {}
    /\ normalizedLocation = Unset
    /\ harvests = 0
    /\ PopupClosed
    /\ ServerIdle

Next == BuildPage \/ ExtractPage

Spec == Init /\ [][Next]_vars

-----------------------------------------------------------------------------
(* Properties of extractPage, under Spec.                                   *)

Answered == response # NoResponse
Extracted == Answered /\ response.success

\* the h1..h6 elements below the root of a tree, in document order, as Heading records
HeadingsBelowRoot(t) ==
    LET els == InOrder(t, {i \in 2..Len(t) : t[i].tag \in HeadingTags})
    IN [k \in DOMAIN els |-> HeadingOf(t, els[k])]

\* C1: the Heading list of an extraction has exactly one entry per h1..h6 element that
\* remains in the content region after the disallowed descendants are removed, in
\* document order; a heading inside a removed subtree is not listed.
C1_HeadingsArePostRemoval ==
    Extracted => response.data.headings = HeadingsBelowRoot(trees["clone"])

\* the CodeBlock of a pre element: its code element's (or its own) language and trimmed text
PreBlockOf(t, pre) ==
    LET inner == {i \in Descendants(t, pre) : t[i].tag = "code"}
        codeEl == IF inner = {} THEN pre ELSE CHOOSE i \in inner : \A j \in inner : i <= j
    IN [language |-> BlockLanguage(ClassNameOf(t[codeEl])), code |-> Trim(TextContent(t, codeEl))]

\* one CodeBlock per pre element of the region whose block has nonempty text, in document order
PreBlocksOf(t, region) ==
    LET pres == InOrder(t, {i \in Descendants(t, region) :
                            t[i].tag = "pre" /\ PreBlockOf(t, i).code # <<>>})
    IN [k \in DOMAIN pres |-> PreBlockOf(t, pres[k])]

\* C2: each pairing of a pre element with its code element (or a bare pre) that has
\* nonempty trimmed text contributes exactly one CodeBlock, in document order.
C2_OneCodeBlockPerPre ==
    Extracted => response.data.codeBlocks = PreBlocksOf(trees["doc"], mainContent)

\* C5: rendering the content region leaves the document it was given unchanged: an
\* extraction step changes no node of the document, whatever the preprocessing removes.
C5_SourceTreeUnchanged == [][ExtractPage => trees'["doc"] = trees["doc"]]_vars

\* C5 witness: an extraction whose preprocessing removed nodes of the region from the clone
C5_Witness ==
    /\ Extracted
    /\ Len(trees["clone"]) < Len(Subtree(trees["doc"], mainContent))
    /\ \E i \in Descendants(trees["doc"], mainContent) : trees["doc"][i].tag = "nav"

-----------------------------------------------------------------------------
(* SpecSelect: extractPage on documents that exercise getMainContent.       *)

\* n words separated by single spaces
Words(n) == [i \in 1..(2 * n - 1) |-> IF i % 2 = 1 THEN "w" ELSE " "]

\* a main, a div matched by the .content idiom, a div the skip predicate flags, a text of
\* exactly the threshold's number of words, and a text of one word more
SelectPalette == {
    El("main", <<>>), El("div", [class |-> s_content]), El("div", [class |-> s_sidebar]),
    Text(Words(SubstantialWords)), Text(Words(SubstantialWords + 1)) }

BuildSelectPage == AppendNode(SelectPalette, MaxSelectNodes)

NextSelect == BuildSelectPage \/ ExtractPage

SpecSelect == Init /\ [][NextSelect]_vars

\* the element the k-th idiom selector finds (0 for none), and the selectors that qualify
IdiomMatch(t, k) == QuerySelector(t, 0, <<MainSelectors[k]>>)
Qualifying(t) ==
    {k \in DOMAIN MainSelectors :
        IdiomMatch(t, k) # 0 /\ WordCount(TextContent(t, IdiomMatch(t, k))) > SubstantialWords}
FirstQualifying(t) == CHOOSE k \in Qualifying(t) : \A j \in Qualifying(t) : k <= j

\* the density scoring has no candidate: every div or section is skippable or scores 0
NoDensityCandidate(t) ==
    \A i \in 1..Len(t) :
        t[i].tag \in {"div", "section"} => isSkippableElement(t[i]) \/ ScoreOf(t, i) = 0

\* C9: getMainContent returns an element for every document, never null; when no idiom
\* selector yields an element with more than 50 words and the density scoring finds no
\* candidate, the result is the document's body.
C9_RegionNeverNull ==
    Answered =>
        /\ mainContent \in 1..Len(trees["doc"])
        /\ IsElement(trees["doc"][mainContent])
        /\ (Qualifying(trees["doc"]) = {} /\ NoDensityCandidate(trees["doc"])
               => mainContent = Body)

\* C9 witness: a document with an idiom match that is too short and only a skippable div,
\* for which the body was taken
C9_Witness ==
    /\ Answered
    /\ Qualifying(trees["doc"]) = {}
    /\ IdiomMatch(trees["doc"], 1) # 0
    /\ \E i \in 1..Len(trees["doc"]) : trees["doc"][i].tag = "div"
    /\ NoDensityCandidate(trees["doc"])
    /\ mainContent = Body

\* C10: the idiom step returns the match of the first selector, in list order, whose match
\* has strictly more than 50 words; a match of 50 words or fewer is never returned by this
\* step, and the density fallback decides only when no selector qualifies.
C10_FirstSubstantialIdiom ==
    Answered =>
        LET t == trees["doc"]
            qualifying == Qualifying(t)
            largest == findLargestContentArea(t)
        IN IF qualifying # {}
           THEN /\ mainContent = IdiomMatch(t, CHOOSE k \in qualifying : \A j \in qualifying : k <= j)
                /\ WordCount(TextContent(t, mainContent)) > SubstantialWords
           ELSE mainContent = (IF largest # 0 THEN largest ELSE Body)

\* C10 witness: the first selector's match has exactly 50 words or fewer and is passed
\* over for the match of a later selector
C10_Witness ==
    /\ Answered
    /\ Qualifying(trees["doc"]) # {}
    /\ IdiomMatch(trees["doc"], 1) # 0
    /\ FirstQualifying(trees["doc"]) > 1
    /\ mainContent = IdiomMatch(trees["doc"], FirstQualifying(trees["doc"]))

-----------------------------------------------------------------------------
(* SpecRender: extractPage on documents that exercise processNode's links.  *)

\* an href that new URL cannot resolve against any base: its host is an unclosed "["
MalformedUrl == s_httpsCOLSLSLLB

RenderPalette == {
    El("a", [href |-> MalformedUrl]), El("a", [href |-> s_SLother_page]),
    El("img", [src |-> MalformedUrl]), El("p", <<>>), Text(s_go) }

BuildRenderPage == AppendNode(RenderPalette, MaxNodes)

NextRender == BuildRenderPage \/ ExtractPage

SpecRender == Init /\ [][NextRender]_vars

\* C6: no call into the core raises to its caller because of a malformed URL: rendering
\* an anchor or image whose href/src cannot be resolved completes and emits the original
\* string or text instead of throwing.
C6_MalformedUrlNeverRaises == Answered => response.success

-----------------------------------------------------------------------------
(* SpecLang: the two language-hint routines applied to one class attribute. *)

\* the most class tokens of a class attribute
MaxTokens == 2

ClassTokens == {
    s_language_python, s_language_Python, s_lang_js, s_python, s_Python,
    s_hljs, s_language_, s_c, <<>> }

\* the class attributes of at most n tokens, separated by single spaces
RECURSIVE ClassAttributes(_)
ClassAttributes(n) ==
    IF n = 1 THEN ClassTokens
    ELSE ClassAttributes(n - 1)
            \cup {a \o <<" ">> \o tok : a \in ClassAttributes(n - 1), tok \in ClassTokens}

InitLang ==
    /\ trees = EmptyStore
    /\ response = NoResponse
    /\ mainContent = 0
    /\ location = PageUrl
    /\ sections = NoSections
    /\ className \in ClassAttributes(MaxTokens)
    /\ blockLang = Unset
    /\ fenceLang = Unset
    /\ unsupported = {}
    /\ normalizedLocation = Unset
    /\ harvests = 0
    /\ PopupClosed
    /\ ServerIdle

\* extractCodeBlocks reads the language of a code element with this class attribute
CollectCodeBlock ==
    /\ blockLang = Unset
    /\ blockLang' = BlockLanguage(className)
    /\ UNCHANGED <<trees, response, mainContent, location, sections, className, fenceLang,
                 unsupported, normalizedLocation, harvests,
                 popupVars, serverVars>>

\* processNode renders the pre of the same code element
RenderPre ==
    /\ fenceLang = Unset
    /\ fenceLang' = detectLanguageFromElement(className)
    /\ UNCHANGED <<trees, response, mainContent, location, sections, className, blockLang,
                 unsupported, normalizedLocation, harvests,
                 popupVars, serverVars>>

NextLang == CollectCodeBlock \/ RenderPre

SpecLang == InitLang /\ [][NextLang]_vars

\* C7: the language on the fence of a rendered pre equals the language of the CodeBlock
\* collected for the same code element, for every class attribute.
C7_FenceMatchesCodeBlock ==
    blockLang # Unset /\ fenceLang # Unset => fenceLang = blockLang

\* C8: for every class attribute the language hint is lowercase or empty.
C8_HintIsLowercase ==
    /\ blockLang # Unset => blockLang = ToLowerCase(blockLang)
    /\ fenceLang # Unset => fenceLang = ToLowerCase(fenceLang)

-----------------------------------------------------------------------------
(* detectDocSections: the links of the documentation's navigation.          *)

\* "<c> a" for a class c, "#<i> a" for an id i, "[<a>] a" for an attribute a
InClass(c) == <<Class(c), Tag("a")>>
InId(i)    == <<Id(i), Tag("a")>>
InAttr(a)  == <<AttrHas(a), Tag("a")>>

sidebarSelectors == <<
    <<Class(s_sidebar), Tag("nav"), Tag("a")>>,
    InClass(s_docs_sidebar), InClass(s_toc), InClass(s_table_of_contents),
    <<TagClass("nav", s_docs), Tag("a")>>,
    <<AttrContains("class", s_sidebar), Tag("nav"), Tag("a")>>,
    <<AttrContains("class", s_sidebar), Tag("ul"), Tag("a")>>,
    <<Tag("aside"), Tag("nav"), Tag("a")>>,
    InClass(s_documentation_nav), InClass(s_doc_nav), InClass(s_docs_menu),
    InAttr("data-docs-sidebar"),
    <<Class(s_nav_link)>>,
    InClass(s_theme_doc_sidebar_menu),
    <<Class(s_menu__link)>>,
    InClass(s_docSidebarContainer),
    <<AttrContains("class", s_docSidebar), Tag("a")>>,
    InClass(s_docs_sidebar_nav),
    InClass(s_VPSidebar), InClass(s_VPSidebarItem), InClass(s_vp_sidebar),
    InClass(s_VPNavBar), InClass(s_sidebar_links),
    InClass(s_gitbook_navigation),
    <<AttrEq("data-testid", s_toc), Tag("a")>>,
    InClass(s_css_175oi2r), InClass(s_sidebar_navigation),
    InClass(s_md_nav), InClass(s_md_sidebar),
    <<Class(s_md_nav__link)>>,
    <<Class(s_rst_content), Class(s_toctree), Tag("a")>>,
    InClass(s_wy_menu), InClass(s_wy_nav_side), InClass(s_sphinxsidebar),
    InAttr("data-nextra-toc"), InClass(s_nextra_sidebar),
    <<TagClass("nav", s_nextra_toc), Tag("a")>>,
    InAttr("data-sidebar"), InClass(s_mintlify_sidebar),
    InClass(s_notion_table_of_contents),
    InClass(s_sidebar_nav),
    InId(s_td_sidebar_menu), InClass(s_td_sidebar_nav),
    InAttr("data-sidebar"), InClass(s_sidebar_content),
    InClass(s_bd_sidebar), InClass(s_docs_toc), InId(s_docs_sidebar),
    InClass(s_doc_sidebar) >>

NavSelectors == << <<Tag("nav")>>, <<Tag("aside")>>, <<AttrEq("role", s_navigation)>> >>
ListSelectors == << <<Tag("ul")>>, <<Tag("ol")>> >>
LinkSelectors == << <<TagAttrHas("a", "href")>> >>

\* the thresholds of the three strategies
EnoughSelectorLinks == 2
\* the variant in which strategy 1 goes on with 4 links collected
GoodResultsMore == 3 + 1
GoodResults == 3
\* the variant in which strategies 2 and 3 still run with 3 links collected
FewSectionsMore == 3 + 1
FewSections == 3
EnoughNavLinks == 5
EnoughListLinks == 5
\* "most links are internal": more than 8 in 10
MostlyNum == 8
MostlyDen == 10

\* the shortest title of a section
MinTitleLength == 2

DownloadExtensions == {s_pdf, s_zip, s_tar, s_gz, s_exe, s_dmg, s_pkg}

\* HTMLAnchorElement.href: the href attribute resolved against the document's URL, the
\* attribute itself when it does not resolve, "" without the attribute; an element that
\* is not an anchor has no such property, which reads as "" here
AnchorHref(n, loc) ==
    IF n.tag # "a" \/ ~HasAttr(n, "href") THEN <<>>
    ELSE LET Serialized(u) == IF u.ok THEN HrefOf(u) ELSE Attr(n, "href")
         IN Serialized(ResolveUrl(Attr(n, "href"), ParseUrl(loc)))

\* window.location.origin
LocationOrigin(loc) == OriginOf(ParseUrl(loc))

\* href.match(/\.(pdf|zip|tar|gz|exe|dmg|pkg)$/i)
IsDownload(href) ==
    \E ext \in DownloadExtensions : EndsWith(ToLowerCase(href), <<".">> \o ext)

\* isSkippableNav(el)
SkipPatterns == {s_header, s_footer, s_top_nav, s_main_nav, s_navbar,
                 s_footer_nav}

isSkippableNav(t, el) ==
    \/ Attr(t[el], "role") \in {s_banner, s_contentinfo}
    \/ \E pattern \in SkipPatterns :
          \/ Includes(ToLowerCase(ClassNameOf(t[el])), pattern)
          \/ Includes(ToLowerCase(IdOf(t[el])), pattern)
    \/ ParentTagIn(t, ParentElement(t, el), {"header", "footer"})

\* the variant of the fragment test that lets every link through
IsOwnFragmentNever(href, normalizedHref, currentUrl) == FALSE

\* href.includes('#') && normalizeUrl(href) === currentUrl: a fragment of the current page
IsOwnFragment(href, normalizedHref, currentUrl) ==
    Includes(href, <<"#">>) /\ normalizedHref = currentUrl

\* collectLinks(links, sections, seen, currentUrl) from the k-th link on; acc holds the
\* sections array and the seen set the caller passes by reference
RECURSIVE CollectFrom(_, _, _, _, _)
CollectFrom(t, links, k, acc, loc) ==
    IF k > Len(links) THEN acc
    ELSE LET Visit(href, title, currentUrl, normalizedHref) ==
                 IF \/ href = <<>> \/ Len(title) < MinTitleLength
                    \/ ~StartsWith(href, LocationOrigin(loc))
                    \/ IsOwnFragment(href, normalizedHref, currentUrl)
                    \/ IsDownload(href)
                    \/ normalizedHref \in acc.seen
                 THEN acc
                 ELSE [seen |-> acc.seen \cup {normalizedHref},
                       sections |-> Append(acc.sections,
                                       [title |-> title, url |-> href,
                                        isCurrentPage |-> normalizedHref = currentUrl])]
             Read(href) ==
                 Visit(href, Trim(TextContent(t, links[k])), normalizeUrl(loc),
                       normalizeUrl(href))
         IN CollectFrom(t, links, k + 1, Read(AnchorHref(t[links[k]], loc)), loc)

\* the variant that remembers the links by their href as written, without normalizing
RECURSIVE CollectRawFrom(_, _, _, _, _)
CollectRawFrom(t, links, k, acc, loc) ==
    IF k > Len(links) THEN acc
    ELSE LET Visit(href, title, currentUrl, normalizedHref) ==
                 IF \/ href = <<>> \/ Len(title) < MinTitleLength
                    \/ ~StartsWith(href, LocationOrigin(loc))
                    \/ IsOwnFragment(href, normalizedHref, currentUrl)
                    \/ IsDownload(href)
                    \/ href \in acc.seen
                 THEN acc
                 ELSE [seen |-> acc.seen \cup {href},
                       sections |-> Append(acc.sections,
                                       [title |-> title, url |-> href,
                                        isCurrentPage |-> normalizedHref = currentUrl])]
             Read(href) ==
                 Visit(href, Trim(TextContent(t, links[k])), normalizeUrl(loc),
                       normalizeUrl(href))
         IN CollectRawFrom(t, links, k + 1, Read(AnchorHref(t[links[k]], loc)), loc)

collectLinksRaw(t, links, acc, loc) == CollectRawFrom(t, links, 1, acc, loc)
collectLinks(t, links, acc, loc) == CollectFrom(t, links, 1, acc, loc)

\* the variant of strategy 1 in which a pattern that throws ends the loop
RECURSIVE SidebarFromAborting(_, _, _, _, _)
SidebarFromAborting(t, k, acc, loc, failing) ==
    IF k > Len(sidebarSelectors) \/ k \in failing THEN acc
    ELSE LET Continue(got) ==
                 IF Len(got.sections) > GoodResults THEN got
                 ELSE SidebarFromAborting(t, k + 1, got, loc, failing)
             Query(links) ==
                 IF Len(links) > EnoughSelectorLinks
                 THEN Continue(collectLinks(t, links, acc, loc))
                 ELSE SidebarFromAborting(t, k + 1, acc, loc, failing)
         IN Query(QuerySelectorAll(t, 0, <<sidebarSelectors[k]>>))

\* strategy 1: the sidebar selectors in order, from the k-th on; querySelectorAll throws on
\* the patterns in failing, and the catch goes on with the next pattern
RECURSIVE SidebarFrom(_, _, _, _, _)
SidebarFrom(t, k, acc, loc, failing) ==
    IF k > Len(sidebarSelectors) THEN acc
    ELSE IF k \in failing THEN SidebarFrom(t, k + 1, acc, loc, failing)
    ELSE LET Continue(got) ==
                 IF Len(got.sections) > GoodResults THEN got
                 ELSE SidebarFrom(t, k + 1, got, loc, failing)
             Query(links) ==
                 IF Len(links) > EnoughSelectorLinks
                 THEN Continue(collectLinks(t, links, acc, loc))
                 ELSE SidebarFrom(t, k + 1, acc, loc, failing)
         IN Query(QuerySelectorAll(t, 0, <<sidebarSelectors[k]>>))

\* strategy 2: the navigation elements in document order, from the k-th on
RECURSIVE NavFrom(_, _, _, _, _)
NavFrom(t, navElements, k, acc, loc) ==
    IF k > Len(navElements) THEN acc
    ELSE LET Query(links) ==
                 IF ~isSkippableNav(t, navElements[k]) /\ Len(links) > EnoughNavLinks
                 THEN collectLinks(t, links, acc, loc) ELSE acc
         IN NavFrom(t, navElements, k + 1,
                    Query(QuerySelectorAll(t, navElements[k], LinkSelectors)), loc)

\* strategy 3: the lists in document order, from the k-th on
RECURSIVE ListsFrom(_, _, _, _, _)
ListsFrom(t, lists, k, acc, loc) ==
    IF k > Len(lists) THEN acc
    ELSE LET Internal(href) == href # <<>> /\ StartsWith(href, LocationOrigin(loc))
             Judge(links, internalLinks) ==
                 IF /\ Len(internalLinks) > EnoughListLinks
                    /\ Len(internalLinks) * MostlyDen > MostlyNum * Len(links)
                 THEN collectLinks(t, links, acc, loc) ELSE acc
             Query(links) ==
                 Judge(links, SelectSeq(links, LAMBDA a : Internal(AnchorHref(t[a], loc))))
         IN ListsFrom(t, lists, k + 1,
                      Query(QuerySelectorAll(t, lists[k], LinkSelectors)), loc)

\* a variant in which the set of seen URLs outlives the call
KeptHarvest(left) == [sections |-> <<>>, seen |-> left]

\* the list and the set of seen URLs a call starts with: both are made anew, whatever
\* the call before it has left
NewHarvest(left) == [sections |-> <<>>, seen |-> {}]

\* the list and the seen URLs at the end of a call that follows one that has left the
\* given seen URLs
Harvest(t, loc, failing, left) ==
    LET Lists(second) ==
            IF Len(second.sections) < FewSections
            THEN ListsFrom(t, QuerySelectorAll(t, 0, ListSelectors), 1, second, loc)
            ELSE second
        Navs(first) ==
            Lists(IF Len(first.sections) < FewSections
                  THEN NavFrom(t, QuerySelectorAll(t, 0, NavSelectors), 1, first, loc)
                  ELSE first)
    IN Navs(SidebarFrom(t, 1, NewHarvest(left), loc, failing))

detectDocSections(t, loc, failing) == Harvest(t, loc, failing, {}).sections

-----------------------------------------------------------------------------
(* SpecNav: the GET_SECTIONS listener on pages with one navigation block.   *)

\* the most links the page appends to its navigation block
MaxLinks == 3

LinkTitle == s_Guide

\* a link of the navigation block: an anchor and its title
Link(href) == <<At(El("a", [href |-> href]), 2), At(Text(LinkTitle), 3)>>

\* four links to four other pages of the site
SitePages == Link(s_SLp1) \o Link(s_SLp2) \o Link(s_SLp3) \o Link(s_SLp4)

\* the navigation blocks a page starts with: an empty table of contents, and a plain nav
\* and a plain list that already link to four pages
NavBlocks == {
    <<At(El("ul", [class |-> s_toc]), 1)>>,
    <<At(El("nav", <<>>), 1)>> \o SitePages,
    <<At(El("ul", <<>>), 1)>> \o SitePages }

\* the hrefs of the links the page appends: a page, the page with a trailing slash, a
\* fragment of the page, and a page of another host whose name starts with the document's host
LinkHrefs == {s_SLa, s_SLaSL, s_SLaHASHs, s_httpsCOLSLSLxDOTcomDOTevilDOTorgSLa}

\* a loaded page that starts with one of the given navigation blocks, in a browser whose
\* selector engine throws on one of the given sets of sidebar patterns
InitPage(blocks, failingSets) ==
    /\ \E block \in blocks : trees = [EmptyStore EXCEPT !["doc"] = BodyOnly \o block]
    /\ response = NoResponse
    /\ mainContent = 0
    /\ location = PageUrl
    /\ sections = NoSections
    /\ className = Unset
    /\ blockLang = Unset
    /\ fenceLang = Unset
    /\ unsupported \in failingSets
    /\ normalizedLocation = Unset
    /\ harvests = 0
    /\ PopupClosed
    /\ ServerIdle

InitWith(blocks) == InitPage(blocks, {{}})

InitNav == InitWith(NavBlocks)

\* the links the page has appended, out of the given hrefs
AppendedOf(t, hrefs) == SelectSeq(t, LAMBDA n : n.tag = "a" /\ Attr(n, "href") \in hrefs)
Appended(t) == AppendedOf(t, LinkHrefs)

\* the page appends one link, to one of the given hrefs, to its last navigation block
AppendLinkTo(hrefs) ==
    /\ sections = NoSections
    /\ Len(AppendedOf(trees["doc"], hrefs)) < MaxLinks
    /\ \E href \in hrefs : trees' = [trees EXCEPT !["doc"] = @ \o Link(href)]
    /\ UNCHANGED <<response, mainContent, location, sections, className, blockLang, fenceLang,
                 unsupported, normalizedLocation, harvests,
                 popupVars, serverVars>>

AppendLink == AppendLinkTo(LinkHrefs)

\* the listener answers a GET_SECTIONS message
GetSections ==
    /\ sections = NoSections
    /\ sections' = detectDocSections(trees["doc"], location, unsupported)
    /\ response' = [success |-> TRUE, sections |-> sections']
    /\ harvests' = harvests + 1
    /\ UNCHANGED <<trees, mainContent, location, className, blockLang, fenceLang,
                 unsupported, normalizedLocation, popupVars, serverVars>>

\* the URLs a call that answered the list has put into seen: collectLinks adds the
\* normalized href of each link it pushes, and of no other
SeenBy(list) == {normalizeUrl(list[k].url) : k \in DOMAIN list}

\* the listener answers a second GET_SECTIONS message for the same document; sections
\* keeps the first answer
GetSectionsAgain ==
    /\ sections # NoSections
    /\ harvests = 1
    /\ \E left \in {SeenBy(sections)} :
           response' = [success |-> TRUE,
                        sections |-> Harvest(trees["doc"], location, unsupported, left).sections]
    /\ harvests' = harvests + 1
    /\ UNCHANGED <<trees, mainContent, location, sections, className, blockLang, fenceLang,
                 unsupported, normalizedLocation, popupVars, serverVars>>

NextNav == AppendLink \/ GetSections

SpecNav == InitNav /\ [][NextNav]_vars

Harvested == sections # NoSections

\* C3: every link the harvester returns has the origin (scheme, host, port) of the
\* document; a host that only starts with the document's origin string is not returned.
C3_SameOriginOnly ==
    Harvested =>
        \A k \in DOMAIN sections :
            OriginOf(ParseUrl(sections[k].url)) = OriginOf(ParseUrl(location))


\* the anchors of the page in document order, and what the harvester reads from them
AnchorsOf(t) == QuerySelectorAll(t, 0, << <<Tag("a")>> >>)
HrefAt(i) == AnchorHref(trees["doc"][i], location)

\* an anchor the filters let through: a title, the origin prefix, not a fragment of the
\* current page, not a download
Eligible(i) ==
    /\ HrefAt(i) # <<>>
    /\ Len(Trim(TextContent(trees["doc"], i))) >= MinTitleLength
    /\ StartsWith(HrefAt(i), LocationOrigin(location))
    /\ ~(Includes(HrefAt(i), <<"#">>) /\ normalizeUrl(HrefAt(i)) = normalizeUrl(location))
    /\ ~IsDownload(HrefAt(i))

\* the eligible anchors that normalize to the URL n, in document order
EligibleFor(n) ==
    SelectSeq(AnchorsOf(trees["doc"]), LAMBDA i : Eligible(i) /\ normalizeUrl(HrefAt(i)) = n)

\* C4: no two returned links have the same normalized URL, and each returned link is the
\* first anchor in document order among those that normalize to its URL; anchors that
\* differ only by a trailing slash or only by a fragment yield one link.
C4_UniqueByNormalizedUrl ==
    Harvested =>
        /\ \A j, k \in DOMAIN sections :
                normalizeUrl(sections[j].url) = normalizeUrl(sections[k].url) => j = k
        /\ \A k \in DOMAIN sections :
                sections[k].url = HrefAt(EligibleFor(normalizeUrl(sections[k].url))[1])

\* a page was harvested with a link written with a trailing slash or a fragment after the
\* same link written without, and one link came out for them
C4_Witness ==
    /\ Harvested
    /\ \E k \in DOMAIN sections :
            LET same == EligibleFor(normalizeUrl(sections[k].url))
            IN \E a, b \in DOMAIN same : a < b /\ HrefAt(same[a]) # HrefAt(same[b])

-----------------------------------------------------------------------------
(* The density fallback of getMainContent: pages with no idiom selector     *)
(* match, built from plain, skippable and scoring elements.                 *)

\* a plain div, a div the skip predicate flags, a section, a paragraph, a heading and a word
DensityPalette == {
    El("div", <<>>), El("div", [class |-> s_sidebar]), El("section", <<>>),
    El("p", <<>>), El("h2", <<>>), Text(s_go) }

BuildDensityPage == AppendNode(DensityPalette, MaxSelectNodes)

NextDensity == BuildDensityPage \/ ExtractPage

SpecDensity == Init /\ [][NextDensity]_vars

\* the div and section elements the skip predicate does not flag
DensityCandidates(t) ==
    {i \in 1..Len(t) : t[i].tag \in {"div", "section"} /\ ~isSkippableElement(t[i])}

\* words of the element's text, plus 10 per descendant paragraph, plus 20 per descendant heading
DensityScore(t, i) ==
    WordCount(TextContent(t, i))
        + 10 * Cardinality({j \in Descendants(t, i) : t[j].tag = "p"})
        + 20 * Cardinality({j \in Descendants(t, i) : t[j].tag \in HeadingTags})

\* C11: when no idiom selector qualifies and some div or section is not flagged by the skip
\* predicate, the content region is such an element, no such element scores higher, and every
\* such element earlier in document order scores strictly lower; a flagged element is never it
C11_DensityPicksFirstHighest ==
    (Answered /\ Qualifying(trees["doc"]) = {} /\ DensityCandidates(trees["doc"]) # {}) =>
        /\ mainContent \in DensityCandidates(trees["doc"])
        /\ \A j \in DensityCandidates(trees["doc"]) :
               /\ DensityScore(trees["doc"], j) <= DensityScore(trees["doc"], mainContent)
               /\ j < mainContent =>
                      DensityScore(trees["doc"], j) < DensityScore(trees["doc"], mainContent)

\* two elements tie on the highest score, above the score of an empty element, and the
\* earlier one is the content region
C11_Witness ==
    /\ Answered
    /\ \E j, k \in DensityCandidates(trees["doc"]) :
           /\ j < k
           /\ mainContent = j
           /\ DensityScore(trees["doc"], j) = DensityScore(trees["doc"], k)
           /\ DensityScore(trees["doc"], j) > 1

-----------------------------------------------------------------------------
(* SpecFilter: the filters of collectLinks on a table of contents whose     *)
(* links point into the current page, to other pages and to downloads.      *)

\* the hrefs of the links the page appends: a fragment of the current page, the current
\* page, another page of the site, and a download with a query string
FilterHrefs == {s_HASHs, s_SLdoc, s_SLother_page, s_SLfileDOTpdfQvEQ1}

InitFilter == InitWith({<<At(El("ul", [class |-> s_toc]), 1)>>})

AppendFilterLink == AppendLinkTo(FilterHrefs)

NextFilter == AppendFilterLink \/ GetSections

SpecFilter == InitFilter /\ [][NextFilter]_vars

\* the page's table of contents has enough links for its selector to pass them to collectLinks
TocCollected == Len(AnchorsOf(trees["doc"])) > 2

\* the anchor points into the current page: its URL has a fragment and differs from the
\* document's URL in the fragment (and a trailing slash) only
InPageAnchor(i) ==
    /\ Includes(HrefAt(i), <<"#">>)
    /\ normalizeUrl(HrefAt(i)) = normalizeUrl(location)

\* an anchor with a title to a different page of the document's origin that is no download
OtherPageAnchor(i) ==
    /\ Len(Trim(TextContent(trees["doc"], i))) >= 2
    /\ ParseUrl(HrefAt(i)).ok
    /\ OriginOf(ParseUrl(HrefAt(i))) = OriginOf(ParseUrl(location))
    /\ normalizeUrl(HrefAt(i)) # normalizeUrl(location)
    /\ ~IsDownload(HrefAt(i))

\* C12: no returned link is a fragment of the current page; every anchor passed to the
\* collection rule that leads to a different same-origin page is among the returned links
\* with isCurrentPage false, and isCurrentPage is true only for the current page's URL
C12_FragmentsOfCurrentPageDropped ==
    Harvested =>
        /\ \A k \in DOMAIN sections :
               /\ ~(/\ Includes(sections[k].url, <<"#">>)
                    /\ normalizeUrl(sections[k].url) = normalizeUrl(location))
               /\ sections[k].isCurrentPage =
                      (normalizeUrl(sections[k].url) = normalizeUrl(location))
        /\ TocCollected =>
               \A i \in Range(AnchorsOf(trees["doc"])) :
                   OtherPageAnchor(i) =>
                       \E k \in DOMAIN sections :
                           /\ normalizeUrl(sections[k].url) = normalizeUrl(HrefAt(i))
                           /\ ~sections[k].isCurrentPage

\* a table of contents with a fragment link into the current page and a link to another
\* page was harvested, and the other page came out
C12_Witness ==
    /\ Harvested
    /\ TocCollected
    /\ \E i, j \in Range(AnchorsOf(trees["doc"])) :
           /\ InPageAnchor(i)
           /\ OtherPageAnchor(j)
           /\ \E k \in DOMAIN sections : sections[k].url = HrefAt(j)

\* the path of a URL string ends in a download extension, in any letter case
DownloadPath(u) ==
    \E ext \in {s_pdf, s_zip, s_tar, s_gz, s_exe, s_dmg, s_pkg} :
        EndsWith(ToLowerCase(u.path), <<".">> \o ext)

\* C13: no returned link leads to a file with one of the download extensions, with or
\* without a query string or a fragment after the file's name
C13_NoDownloadLinks ==
    Harvested =>
        \A k \in DOMAIN sections :
            ParseUrl(sections[k].url).ok => ~DownloadPath(ParseUrl(sections[k].url))

-----------------------------------------------------------------------------
(* SpecCascade: the three strategies of detectDocSections on pages with a   *)
(* table of contents after a nav, after a group of .nav-link anchors, or    *)
(* after a plain list.                                                      *)

\* the places of '.toc a' and '.nav-link' in sidebarSelectors
TocPattern == 3
NavLinkPattern == 13

\* an anchor with the class nav-link and its title
NavLink(href) ==
    <<At(El("a", [href |-> href, class |-> s_nav_link]), 2), At(Text(LinkTitle), 3)>>

SixPages == SitePages \o Link(s_SLp5) \o Link(s_SLp6)

\* the table of contents: it starts with two links, and the page appends to it
Toc == <<At(El("ul", [class |-> s_toc]), 1)>> \o Link(s_SLt0) \o Link(s_SLt1)

CascadeBlocks == {
    <<At(El("nav", <<>>), 1)>> \o SixPages \o Toc,
    <<At(El("div", <<>>), 1)>> \o NavLink(s_SLn1) \o NavLink(s_SLn2) \o NavLink(s_SLn3)
        \o Toc,
    <<At(El("ul", <<>>), 1)>> \o SixPages \o Toc }

\* the hrefs of the links the page appends: two new pages, and a page the table already
\* links, written with a trailing slash
CascadeHrefs == {s_SLa, s_SLb, s_SLt0SL}

\* the selector engine supports every pattern, or throws on '.toc a'
FailingSets == {{}, {TocPattern}}

InitCascade == InitPage(CascadeBlocks, FailingSets)

AppendCascadeLink == AppendLinkTo(CascadeHrefs)

NextCascade == AppendCascadeLink \/ GetSections

SpecCascade == InitCascade /\ [][NextCascade]_vars

\* the normalized URLs of a list of sections, and of the eligible elements among a list's
UrlsIn(secs) == {normalizeUrl(secs[k].url) : k \in DOMAIN secs}
UrlsAmong(els) == {normalizeUrl(HrefAt(i)) : i \in {j \in Range(els) : Eligible(j)}}

\* what the k-th sidebar pattern matches, and the patterns that are evaluated without
\* throwing and match more than 2 elements
MatchesOf(k) == QuerySelectorAll(trees["doc"], 0, <<sidebarSelectors[k]>>)
Contributing == {k \in DOMAIN sidebarSelectors : k \notin unsupported /\ Len(MatchesOf(k)) > 2}

\* the URLs the patterns of P up to the k-th contribute together, the patterns of P that
\* leave more than 3 URLs, and what strategy 1 collects: the URLs up to the first such pattern
UrlsThrough(P, k) == UNION {UrlsAmong(MatchesOf(j)) : j \in {p \in P : p <= k}}
Stops(P) == {k \in P : Cardinality(UrlsThrough(P, k)) > 3}
SidebarUrlsOf(P) ==
    UrlsThrough(P, IF Stops(P) = {} THEN Len(sidebarSelectors) ELSE MinOr(Stops(P), 0))
SidebarUrls == SidebarUrlsOf(Contributing)

\* the anchors with an href below an element
LinksBelow(el) == QuerySelectorAll(trees["doc"], el, <<<<TagAttrHas("a", "href")>>>>)

\* what strategy 2 collects when it runs: the links of the nav, aside and role=navigation
\* elements that are not skippable and hold more than 5 links
NavUrls ==
    UNION {UrlsAmong(LinksBelow(n)) :
             n \in {m \in Range(QuerySelectorAll(trees["doc"], 0, NavSelectors)) :
                      ~isSkippableNav(trees["doc"], m) /\ Len(LinksBelow(m)) > 5}}

\* the links of a list whose href starts with the origin string of the document
InternalBelow(el) ==
    SelectSeq(LinksBelow(el), LAMBDA i : StartsWith(HrefAt(i), LocationOrigin(location)))

\* what strategy 3 collects when it runs: the links of the lists with more than 5 such links
\* that are more than 80% of the list's links
ListUrls ==
    UNION {UrlsAmong(LinksBelow(n)) :
             n \in {m \in Range(QuerySelectorAll(trees["doc"], 0, ListSelectors)) :
                      /\ Len(InternalBelow(m)) > 5
                      /\ Len(InternalBelow(m)) * 5 > Len(LinksBelow(m)) * 4}}

\* a strategy adds its URLs to those collected so far only when these are fewer than 3
Gated(soFar, more) == IF Cardinality(soFar) < 3 THEN soFar \cup more ELSE soFar

\* C14: strategies 2 and 3 each run only when fewer than 3 links are collected when they are
\* reached, and what was collected before them is kept: the returned links are those of
\* strategy 1, with those of strategy 2 when strategy 1 left fewer than 3, with those of
\* strategy 3 when strategies 1 and 2 left fewer than 3
C14_LaterStrategiesOnlyBelowThree ==
    Harvested =>
        /\ UrlsIn(sections) = Gated(Gated(SidebarUrls, NavUrls), ListUrls)
        /\ Len(sections) = Cardinality(UrlsIn(sections))

\* strategy 1 collected 3 links or more on a page whose nav or list would have contributed
\* other links, and only the links of strategy 1 came out
C14_Witness ==
    /\ Harvested
    /\ Cardinality(SidebarUrls) >= 3
    /\ (NavUrls \cup ListUrls) \ SidebarUrls # {}
    /\ UrlsIn(sections) = SidebarUrls

\* the patterns strategy 1 evaluates: those not after a pattern that left more than 3 URLs
Evaluated(P) == {k \in P : \A s \in Stops(P) : k <= s}

\* the first returned links are exactly those with the URLs U
PrefixIs(U) ==
    /\ Len(sections) >= Cardinality(U)
    /\ UrlsIn(SubSeq(sections, 1, Cardinality(U))) = U

\* the returned links start with the links of the evaluated patterns among P, pattern after
\* pattern, and a pattern that left more than 3 links ends the list
AccumulatesOver(P) ==
    /\ \A k \in Evaluated(P) : PrefixIs(UrlsThrough(P, k))
    /\ Stops(P) # {} => Len(sections) = Cardinality(SidebarUrlsOf(P))

AfterFailing(P) == {k \in Evaluated(P) : \E f \in unsupported : f < k}

\* the returned links hold the links of every pattern evaluated after a failing one and those
\* of the later strategies that were due, and no link that only a failing pattern matches
SkipsFailing(P) ==
    /\ \A k \in AfterFailing(P) : UrlsAmong(MatchesOf(k)) \subseteq UrlsIn(sections)
    /\ Cardinality(SidebarUrlsOf(P)) < 3 => NavUrls \subseteq UrlsIn(sections)
    /\ Cardinality(Gated(SidebarUrlsOf(P), NavUrls)) < 3 => ListUrls \subseteq UrlsIn(sections)
    /\ UrlsIn(sections) \subseteq
           (UrlsThrough(P, Len(sidebarSelectors)) \cup NavUrls \cup ListUrls)

\* C17: when the evaluation of a sidebar pattern throws, the listener still answers with a
\* list of links; the pattern is skipped, and every later pattern and strategy still runs
C17_FailingPatternSkipped ==
    (Harvested /\ unsupported # {}) =>
        /\ response = [success |-> TRUE, sections |-> sections]
        /\ SkipsFailing(Contributing)

\* the engine threw on '.toc a' on a page whose table of contents has more than 2 links, and
\* the links of a later pattern came out
C17_Witness ==
    /\ Harvested
    /\ TocPattern \in unsupported
    /\ Len(MatchesOf(TocPattern)) > 2
    /\ \E k \in Contributing :
           /\ k > TocPattern
           /\ UrlsAmong(MatchesOf(k)) # {}
           /\ UrlsAmong(MatchesOf(k)) \subseteq UrlsIn(sections)

-----------------------------------------------------------------------------
(* SpecLists: strategy 3 of detectDocSections on pages with one plain list. *)

\* a list of 5 links into the site, and a list of 7 links into the site and one to
\* another site
ListBlocks == {
    <<At(El("ul", <<>>), 1)>> \o SitePages \o Link(s_SLp5),
    <<At(El("ul", <<>>), 1)>> \o SixPages \o Link(s_SLp7) \o Link(s_httpsCOLSLSLotherDOTorgSLx) }

\* the hrefs of the links the page appends: a page of the site, a page of another site, and
\* a page of another host whose name starts with the document's host
ListHrefs == {s_SLa, s_httpsCOLSLSLotherDOTorgSLy, s_httpsCOLSLSLxDOTcomDOTevilDOTorgSLa}

InitLists == InitWith(ListBlocks)

AppendListLink == AppendLinkTo(ListHrefs)

NextLists == AppendListLink \/ GetSections

SpecLists == InitLists /\ [][NextLists]_vars

\* the links of a list that lead to the origin (scheme, host, port) of the document
SameOriginBelow(el) ==
    SelectSeq(LinksBelow(el),
              LAMBDA i : /\ ParseUrl(HrefAt(i)).ok
                         /\ OriginOf(ParseUrl(HrefAt(i))) = OriginOf(ParseUrl(location)))

\* the lists with more than 5 internal links that are more than 80% of their links
DenseLists ==
    {m \in Range(QuerySelectorAll(trees["doc"], 0, ListSelectors)) :
        /\ Len(SameOriginBelow(m)) > 5
        /\ Len(SameOriginBelow(m)) * 5 > Len(LinksBelow(m)) * 4}

\* C16: on a page whose links all sit in plain lists, the returned links are those of the
\* lists with more than 5 internal (same-origin) links making up more than 80% of the
\* list's links; a list with 5 internal links, or with a share of 80% or less, contributes
\* nothing
C16_DenseListsOnly ==
    Harvested =>
        UrlsIn(sections) = UNION {UrlsAmong(LinksBelow(m)) : m \in DenseLists}

-----------------------------------------------------------------------------
(* SpecUrl: normalizeUrl on URL strings.                                    *)

\* the longest path of the URL strings
MaxPathLen == 3

\* the strings of up to n characters over the given characters
RECURSIVE StringsUpTo(_, _)
StringsUpTo(chars, n) ==
    IF n = 0 THEN {<<>>}
    ELSE StringsUpTo(chars, n - 1)
            \cup {Append(s, c) : s \in StringsUpTo(chars, n - 1), c \in chars}

\* the empty path and the paths of slashes and letters that start with a slash
Paths(n) == {p \in StringsUpTo({"/", "a"}, n) : p = <<>> \/ Head(p) = "/"}

\* the document's origin as a browser serializes it, and with an upper-case host and the
\* default port written out
UrlOrigins == {s_httpsCOLSLSLxDOTcom, s_httpsCOLSLSLXDOTcomCOL443}

\* what follows the path: nothing, a query, a fragment, or both
UrlRests == {<<>>, s_QqEQ1, s_HASHs, s_QqEQ1HASHs}

\* strings that are no absolute URL
NotUrls == {s_xDOTcomSLaSL, s_SLaSLHASHs, MalformedUrl}

UrlStrings == {o \o p \o r : o \in UrlOrigins, p \in Paths(MaxPathLen), r \in UrlRests} \cup NotUrls

InitUrl ==
    /\ trees = EmptyStore
    /\ response = NoResponse
    /\ mainContent = 0
    /\ location \in UrlStrings
    /\ sections = NoSections
    /\ className = Unset
    /\ blockLang = Unset
    /\ fenceLang = Unset
    /\ unsupported = {}
    /\ normalizedLocation = Unset
    /\ harvests = 0
    /\ PopupClosed
    /\ ServerIdle

\* detectDocSections computes currentUrl
NormalizeLocation ==
    /\ normalizedLocation = Unset
    /\ normalizedLocation' = normalizeUrl(location)
    /\ UNCHANGED <<trees, response, mainContent, location, sections, className, blockLang,
                   fenceLang, unsupported, harvests, popupVars, serverVars>>

NextUrl == NormalizeLocation

SpecUrl == InitUrl /\ [][NextUrl]_vars

\* the path without its trailing slash, when it has one and is not the root
WithoutTrailingSlash(path) ==
    IF path # <<"/">> /\ path[Len(path)] = "/" THEN SubSeq(path, 1, Len(path) - 1) ELSE path

\* the URL n is the URL u without its fragment and without the trailing slash of its path
SameButFragmentAndSlash(u, n) ==
    /\ n.ok
    /\ n.host = u.host
    /\ n.port = u.port
    /\ n.query = u.query
    /\ n.fragment = Null
    /\ n.path = WithoutTrailingSlash(u.path)

\* C18: the normalized form of a URL is the same URL without its fragment and, when its
\* path is not the root and ends with a slash, without that one slash: scheme, host, port,
\* query and the rest of the path are unchanged, and the result is the serialization of
\* that URL; a string that does not parse as a URL is returned unchanged
C18_NormalizeClearsFragmentAndSlash ==
    normalizedLocation # Unset =>
        IF ParseUrl(location).ok
        THEN /\ SameButFragmentAndSlash(ParseUrl(location), ParseUrl(normalizedLocation))
             /\ normalizedLocation = HrefOf(ParseUrl(normalizedLocation))
        ELSE normalizedLocation = location

\* a URL with a fragment whose path ends with two slashes was normalized
C18_Witness ==
    /\ normalizedLocation # Unset
    /\ ParseUrl(location).ok
    /\ ParseUrl(location).fragment # Null
    /\ EndsWith(ParseUrl(location).path, <<"/", "/">>)
    /\ Len(ParseUrl(location).path) > 2

\* C29: normalizing is idempotent: normalizing the normalized location gives the
\* normalized location again.
C29_NormalizeIdempotent ==
    normalizedLocation # Unset => normalizeUrl(normalizedLocation) = normalizedLocation

-----------------------------------------------------------------------------
(* SpecHidden: extraction of pages with hidden elements.                    *)

\* a hidden link with a malformed href, a hidden div, a span hidden from assistive
\* technology, a span that is not, an image with a malformed src, and a word
HiddenPalette == {
    El("a", [href |-> MalformedUrl, hidden |-> <<>>]),
    El("div", [hidden |-> <<>>]),
    El("span", "aria-hidden" :> s_true),
    El("span", "aria-hidden" :> s_false),
    El("img", [src |-> MalformedUrl]),
    Text(s_go) }

BuildHiddenPage == AppendNode(HiddenPalette, MaxNodes)

NextHidden == BuildHiddenPage \/ ExtractPage

SpecHidden == Init /\ [][NextHidden]_vars

\* an element with a hidden attribute, or with aria-hidden="true"
CarriesHidden(n) ==
    /\ IsElement(n)
    /\ \/ HasAttr(n, "hidden")
       \/ HasAttr(n, "aria-hidden") /\ n.attrs["aria-hidden"] = s_true

\* the tree with an empty text node in the place of each outermost hidden element and its
\* subtree
ShownAmong(t, kept) ==
    [k \in DOMAIN kept |->
        IF CarriesHidden(t[kept[k]]) THEN At(Text(<<>>), t[kept[k]].depth) ELSE t[kept[k]]]
Shown(t) ==
    ShownAmong(t, SelectSeq([i \in 1..Len(t) |-> i],
                            LAMBDA i : \A j \in Ancestors(t, i) : ~CarriesHidden(t[j])))

\* what the rendering of the region rooted at root gives when hidden elements render as
\* the empty string and nothing below them is looked at
RenderingOfShown(t, root) ==
    IF CarriesHidden(t[root]) THEN Returned(<<>>)
    ELSE convertToMarkdown([doc |-> Shown(Subtree(t, root)), clone |-> <<>>],
                           Ref("doc", 1), ParseUrl(location)).result

\* the listener's answer agrees with a rendering: both raise, or neither and the content is
\* the rendering's Markdown
AnswerIs(rendering) ==
    /\ response.success = rendering.ok
    /\ response.success => response.data.content = rendering.md

\* C19: an element with a hidden attribute or aria-hidden="true" renders as the empty
\* string whatever its tag, and nothing below it is visited: the page's content, and whether
\* the extraction raises, are those of the page with an empty text in the place of each
\* such element
C19_HiddenRendersEmpty ==
    (Answered /\ mainContent # 0) => AnswerIs(RenderingOfShown(trees["doc"], mainContent))

\* a page with an aria-hidden element around an image whose src would raise, and with
\* visible text, was extracted without an error
C19_Witness ==
    /\ Extracted
    /\ response.data.content # <<>>
    /\ \E i, j \in 1..Len(trees["doc"]) :
           /\ HasAttr(trees["doc"][i], "aria-hidden")
           /\ CarriesHidden(trees["doc"][i])
           /\ j \in Descendants(trees["doc"], i)
           /\ trees["doc"][j].tag = "img"

-----------------------------------------------------------------------------
(* SpecTable: extraction of pages that consist of one table.                *)

\* the most nodes the page puts into its table
MaxTableNodes == 4

TablePalette == {El("tr", <<>>), El("th", <<>>), El("td", <<>>), Text(s_go)}

\* the table of the page
TheTable == Body + 1

InitTable ==
    /\ trees = [EmptyStore EXCEPT !["doc"] = BodyOnly \o <<At(El("table", <<>>), 1)>>]
    /\ response = NoResponse
    /\ mainContent = 0
    /\ location = PageUrl
    /\ sections = NoSections
    /\ className = Unset
    /\ blockLang = Unset
    /\ fenceLang = Unset
    /\ unsupported = {}
    /\ normalizedLocation = Unset
    /\ harvests = 0
    /\ PopupClosed
    /\ ServerIdle

\* the page appends one node somewhere in its table
BuildTablePage ==
    /\ response = NoResponse
    /\ Len(trees["doc"]) < MaxTableNodes + TheTable
    /\ \E t \in Extend(trees["doc"], TablePalette) :
           /\ t[Len(t)].depth > 1
           /\ trees' = [trees EXCEPT !["doc"] = t]
    /\ UNCHANGED <<response, mainContent, location, sections, className, blockLang, fenceLang,
                   unsupported, normalizedLocation, harvests,
                 popupVars, serverVars>>

NextTable == BuildTablePage \/ ExtractPage

SpecTable == InitTable /\ [][NextTable]_vars

\* the tr elements of the table and the th and td elements of a row, in document order
RowsOf(t) == InOrder(t, {i \in Descendants(t, TheTable) : t[i].tag = "tr"})
CellsOf(t, row) == InOrder(t, {i \in Descendants(t, row) : t[i].tag \in {"th", "td"}})

\* a Markdown table row with the given cells
MarkdownRow(cells) ==
    <<"|", " ">> \o Join(cells, <<" ", "|", " ">>) \o <<" ", "|">>

\* the row of a tr, and the separator row with as many cells
RowLine(t, row) ==
    MarkdownRow([c \in DOMAIN CellsOf(t, row) |-> Trim(TextContent(t, CellsOf(t, row)[c]))])
SeparatorLine(t, row) ==
    MarkdownRow([c \in DOMAIN CellsOf(t, row) |-> <<"-", "-", "-">>])

\* one row per tr in order, with one separator directly after the first
TableLines(t, rows) ==
    [k \in 1..(Len(rows) + 1) |->
        IF k = 1 THEN RowLine(t, rows[1])
        ELSE IF k = 2 THEN SeparatorLine(t, rows[1])
        ELSE RowLine(t, rows[k - 1])]

TableMarkdown(t, rows) ==
    IF rows = <<>> THEN <<>>
    ELSE <<"\n", "\n">> \o Join(TableLines(t, rows), <<"\n">>) \o <<"\n", "\n">>

\* C20: a table renders as one Markdown row per tr in document order, with exactly one
\* separator row of --- cells directly after the first row and with as many cells as that
\* row, whichever later rows hold th cells; a table without a tr renders as the empty string
C20_TableRowsAndOneSeparator ==
    Answered =>
        /\ response.success
        /\ response.data.content = TableMarkdown(trees["doc"], RowsOf(trees["doc"]))

\* a table whose first row has a cell and whose second row has a header cell was extracted
C20_Witness ==
    /\ Extracted
    /\ Len(RowsOf(trees["doc"])) > 1
    /\ CellsOf(trees["doc"], RowsOf(trees["doc"])[1]) # <<>>
    /\ \E c \in Range(CellsOf(trees["doc"], RowsOf(trees["doc"])[2])) :
           trees["doc"][c].tag = "th"

-----------------------------------------------------------------------------
(* SpecList: extraction of pages that consist of one list.                  *)

\* the most nodes the page puts into its list
MaxListNodes == 4

ListPalette == {El("li", <<>>), El("p", <<>>), Text(<<"a">>)}

\* the list of the page
TheList == Body + 1

InitList ==
    /\ \E tag \in {"ol", "ul"} :
           trees = [EmptyStore EXCEPT !["doc"] = BodyOnly \o <<At(El(tag, <<>>), 1)>>]
    /\ response = NoResponse
    /\ mainContent = 0
    /\ location = PageUrl
    /\ sections = NoSections
    /\ className = Unset
    /\ blockLang = Unset
    /\ fenceLang = Unset
    /\ unsupported = {}
    /\ normalizedLocation = Unset
    /\ harvests = 0
    /\ PopupClosed
    /\ ServerIdle

\* the page appends one node somewhere in its list
BuildListPage ==
    /\ response = NoResponse
    /\ Len(trees["doc"]) < MaxListNodes + TheList
    /\ \E t \in Extend(trees["doc"], ListPalette) :
           /\ t[Len(t)].depth > 1
           /\ trees' = [trees EXCEPT !["doc"] = t]
    /\ UNCHANGED <<response, mainContent, location, sections, className, blockLang, fenceLang,
                   unsupported, normalizedLocation, harvests,
                 popupVars, serverVars>>

NextList == BuildListPage \/ ExtractPage

SpecList == InitList /\ [][NextList]_vars

\* the li elements that are children of the list, in document order
ItemsOf(t) ==
    InOrder(t, {i \in Descendants(t, TheList) :
                   t[i].tag = "li" /\ t[i].depth = t[TheList].depth + 1})

\* the prefix of the k-th item: its number, a dot and a space in an ol, "- " in a ul
ItemPrefix(t, k) ==
    IF t[TheList].tag = "ol"
    THEN <<<<"1", "2", "3", "4", "5", "6", "7", "8", "9">>[k], ".", " ">>
    ELSE <<"-", " ">>

\* the lines of the list: each item's prefix before the item's trimmed Markdown
ItemLines(t, items) ==
    [k \in DOMAIN items |->
        ItemPrefix(t, k) \o Trim(processNode(t, items[k], ParseUrl(location)).md)]

\* C21: a list renders as one line per li child in document order, prefixed "1. ", "2. ",
\* ... consecutively in an ol and "- " in a ul; children of the list that are not li give
\* no line and take no number
C21_ItemsNumberedConsecutively ==
    Answered =>
        /\ response.success
        /\ response.data.content =
               <<"\n", "\n">> \o Join(ItemLines(trees["doc"], ItemsOf(trees["doc"])), <<"\n">>)
                   \o <<"\n", "\n">>

\* an ol with a child that is not an li between two items was extracted, and the second
\* item's line starts with "2. "
C21_Witness ==
    /\ Extracted
    /\ trees["doc"][TheList].tag = "ol"
    /\ Len(ItemsOf(trees["doc"])) = 2
    /\ \E c \in Range(Children(trees["doc"], TheList)) :
           /\ trees["doc"][c].tag = "p"
           /\ ItemsOf(trees["doc"])[1] < c
           /\ c < ItemsOf(trees["doc"])[2]
    /\ response.data.content = <<"\n", "\n", "1", ".", " ", "a", "\n", "2", ".", " ", "\n", "\n">>


-----------------------------------------------------------------------------
(* SpecAgain: the GET_SECTIONS listener asked more than once about the same  *)
(* document, on the pages of SpecCascade.                                    *)
-----------------------------------------------------------------------------

NextAgain == AppendCascadeLink \/ GetSections \/ GetSectionsAgain

SpecAgain == InitCascade /\ [][NextAgain]_vars

-----------------------------------------------------------------------------
(* SpecCurrent: the GET_SECTIONS listener on pages whose table of contents   *)
(* links to the document itself in several spellings.                        *)
-----------------------------------------------------------------------------

CurrentHrefs == {s_SLdoc, s_SLdocSL, s_SLdocSLSL, s_SLother_page}

AppendCurrentLink == AppendLinkTo(CurrentHrefs)

NextCurrent == AppendCurrentLink \/ GetSections

SpecCurrent == InitFilter /\ [][NextCurrent]_vars

\* C30: at most one returned link is flagged isCurrentPage, and a link is flagged exactly
\* when its normalized URL is the normalized URL of the document.
C30_OneCurrentPage ==
    Harvested =>
        /\ \A j, k \in DOMAIN sections :
               sections[j].isCurrentPage /\ sections[k].isCurrentPage => j = k
        /\ \A k \in DOMAIN sections :
               sections[k].isCurrentPage =
                   (normalizeUrl(sections[k].url) = normalizeUrl(location))

\* a page linking to the document with and without a trailing slash was harvested, and
\* one flagged link came out next to an unflagged one
C30_Witness ==
    /\ Harvested
    /\ \E i, j \in Range(AnchorsOf(trees["doc"])) :
           /\ Attr(trees["doc"][i], "href") = s_SLdoc
           /\ Attr(trees["doc"][j], "href") = s_SLdocSL
    /\ \E j, k \in DOMAIN sections : sections[j].isCurrentPage /\ ~sections[k].isCurrentPage


-----------------------------------------------------------------------------
(* SpecConcealed: extraction of pages with hidden elements inside a list, a  *)
(* pre/code block or a table row.                                            *)
-----------------------------------------------------------------------------

\* the most nodes the page puts into its list, block or row
MaxConcealedNodes == 3

ConcealedBlocks == {
    <<At(El("ul", <<>>), 1)>>,
    <<At(El("pre", <<>>), 1), At(El("code", <<>>), 2)>>,
    <<At(El("table", <<>>), 1), At(El("tr", <<>>), 2)>> }

\* a hidden list item, a hidden cell, a span hidden from assistive technology, and a word
ConcealedPalette == {
    El("li", [hidden |-> <<>>]),
    El("td", [hidden |-> <<>>]),
    El("span", "aria-hidden" :> s_true),
    Text(s_go) }

InitConcealed == InitWith(ConcealedBlocks)

\* the page appends one node somewhere in its list, block or row
BuildConcealedPage ==
    /\ response = NoResponse
    /\ Len(trees["doc"]) < MaxConcealedNodes + Body + 2
    /\ \E t \in Extend(trees["doc"], ConcealedPalette) :
           /\ t[Len(t)].depth > 1
           /\ trees' = [trees EXCEPT !["doc"] = t]
    /\ UNCHANGED <<response, mainContent, location, sections, className, blockLang, fenceLang,
                   unsupported, normalizedLocation, harvests, popupVars, serverVars>>

NextConcealed == BuildConcealedPage \/ ExtractPage

SpecConcealed == InitConcealed /\ [][NextConcealed]_vars

\* every text of the tree is inside a hidden element
AllTextHidden(t) ==
    \A i \in 1..Len(t) :
        t[i].tag = "#text" => \E j \in Ancestors(t, i) : CarriesHidden(t[j])

\* C26: the text of a hidden element never appears in the Markdown of the region around
\* it, and the hidden element leaves no marker: the content is that of the page with
\* an empty text in the place of each hidden element, whether the element is a list
\* item, sits inside a pre/code block, or is a table cell.
C26_HiddenLeavesNothing ==
    (Answered /\ mainContent # 0 /\ response.success) =>
        /\ AllTextHidden(trees["doc"]) => ~Includes(response.data.content, s_go)
        /\ response.data.content = RenderingOfShown(trees["doc"], mainContent).md


-----------------------------------------------------------------------------
(* The popup: the list of detected sections with its checkboxes, the click   *)
(* handlers that extract them page after page, and the download queue.       *)
-----------------------------------------------------------------------------

\* the most sections the content script reports to the popup
MaxSections == 2
\* the most clicks on an extract button
MaxClicks == 2

\* the pages of the documentation site
TabPages == {"https://x.com/a", "https://x.com/b", "https://x.com/c"}
\* the page the tab shows when the popup opens
FirstPage == "https://x.com/a"

Formats == {"markdown", "json", "both"}

NoTab == "no tab"

\* the lists of sections the content script can answer for a document: no two for the
\* same page, at most one flagged as the current page
SectionLists(current) ==
    {[k \in DOMAIN s |-> [url |-> s[k], isCurrentPage |-> s[k] = current]] :
        s \in {q \in UNION {[1..n -> TabPages] : n \in 0..MaxSections} :
                  \A j, k \in DOMAIN q : q[j] = q[k] => j = k}}

\* renderSections: the position (from 1) each checkbox carries in data-index, and the boxes
\* that start checked
InitiallyChecked(list) == {k \in DOMAIN list : list[k].isCurrentPage}

\* the popup has opened on a page: detectSections has stored the content script's answer
\* and renderSections has drawn the checkboxes
InitPopup ==
    /\ trees = EmptyStore
    /\ response = NoResponse
    /\ mainContent = 0
    /\ location = FirstPage
    /\ sections = NoSections
    /\ className = Unset
    /\ blockLang = Unset
    /\ fenceLang = Unset
    /\ unsupported = {}
    /\ normalizedLocation = Unset
    /\ harvests = 0
    /\ ServerIdle
    /\ tabUrl = FirstPage
    /\ detectedSections \in SectionLists(FirstPage)
    /\ selectedFormat = "markdown"
    /\ checked = InitiallyChecked(detectedSections)
    /\ popupPc = "idle"
    /\ selectedSections = <<>>
    /\ visits = <<>>
    /\ allContent = <<>>
    /\ downloadQueue = <<>>
    /\ isProcessingQueue = FALSE
    /\ loops = 0
    /\ inFlight = NoFile
    /\ downloads = <<>>
    /\ clicks = 0

\* a click on a format button
SelectFormat ==
    /\ popupPc = "idle"
    /\ \E f \in Formats \ {selectedFormat} : selectedFormat' = f
    /\ UNCHANGED <<extractorVars, serverVars, detectedSections, checked, tabUrl, popupPc,
                   selectedSections, visits, allContent, downloadQueue, isProcessingQueue,
                   loops, inFlight, downloads, clicks>>

\* a click on a section's row or checkbox
ToggleSection ==
    /\ popupPc = "idle"
    /\ \E k \in DOMAIN detectedSections :
           checked' = IF k \in checked THEN checked \ {k} ELSE checked \cup {k}
    /\ UNCHANGED <<extractorVars, serverVars, detectedSections, selectedFormat, tabUrl,
                   popupPc, selectedSections, visits, allContent, downloadQueue,
                   isProcessingQueue, loops, inFlight, downloads, clicks>>

\* a change of the Select All checkbox
SelectAll ==
    /\ popupPc = "idle"
    /\ \E isChecked \in BOOLEAN :
           /\ checked' = IF isChecked THEN DOMAIN detectedSections ELSE {}
           /\ checked' # checked
    /\ UNCHANGED <<extractorVars, serverVars, detectedSections, selectedFormat, tabUrl,
                   popupPc, selectedSections, visits, allContent, downloadQueue,
                   isProcessingQueue, loops, inFlight, downloads, clicks>>

\* popup.ts getSelectedIndices: the data-index of each checked box, in document order,
\* when it is a position of the list
getSelectedIndices(boxes, list) ==
    SelectSeq(InOrder(list, boxes), LAMBDA index : index >= 1 /\ index <= Len(list))

\* content.ts: the forEach callback's index, the place of each checked box among the
\* checked boxes
PlacesAmongChecked(boxes, list) == [k \in 1..Len(InOrder(list, boxes)) |-> k]

\* the files of one extracted page in the chosen format
FilesOf(content, format) ==
    (IF format \in {"markdown", "both"}
     THEN <<[page |-> content.url, type |-> "md"]>> ELSE <<>>)
    \o (IF format \in {"json", "both"}
        THEN <<[page |-> content.url, type |-> "json"]>> ELSE <<>>)

RECURSIVE BatchFiles(_, _)
BatchFiles(contents, format) ==
    IF contents = <<>> THEN <<>>
    ELSE FilesOf(Head(contents), format) \o BatchFiles(Tail(contents), format)

\* the page the tab shows once the loop has navigated for the section
ShownFor(section) == IF section.isCurrentPage THEN tabUrl ELSE section.url

\* extractCurrentPage and extractSingleSection: the tab is navigated when the section is
\* not flagged, asked to extract, and the files of its answer are handed to downloadFile
\* one after the other until one is rejected (none when the extraction fails)
ExtractOne(shown) ==
    /\ tabUrl' = shown
    /\ \E n \in 0..Len(FilesOf([url |-> shown], selectedFormat)) :
           downloads' = downloads \o SubSeq(FilesOf([url |-> shown], selectedFormat), 1, n)
    /\ UNCHANGED <<popupPc, selectedSections, visits, allContent>>

\* extractMultipleSections up to its loop
StartBatch(indices) ==
    /\ selectedSections' = [k \in DOMAIN indices |-> detectedSections[indices[k]]]
    /\ allContent' = <<>>
    /\ visits' = <<>>
    /\ popupPc' = "batch"
    /\ UNCHANGED <<tabUrl, downloads>>

\* popup.ts: a click on the extract button
ExtractClickOn(indices) ==
    /\ popupPc = "idle"
    /\ clicks < MaxClicks
    /\ clicks' = clicks + 1
    /\ IF Len(indices) > 1 THEN StartBatch(indices)
       ELSE IF Len(indices) = 1 THEN ExtractOne(ShownFor(detectedSections[indices[1]]))
       ELSE ExtractOne(tabUrl)
    /\ UNCHANGED <<extractorVars, serverVars, detectedSections, selectedFormat, checked,
                   downloadQueue, isProcessingQueue, loops, inFlight>>

ExtractClick == ExtractClickOn(getSelectedIndices(checked, detectedSections))

\* content.ts: a click on the Extract Selected button
ExtractSelectedClickOn(selectedIndices) ==
    /\ popupPc = "idle"
    /\ clicks < MaxClicks
    /\ clicks' = clicks + 1
    /\ IF Len(selectedIndices) = 0
       THEN UNCHANGED <<popupPc, selectedSections, visits, allContent>>
       ELSE /\ selectedSections' =
                   [k \in DOMAIN selectedIndices |-> detectedSections[selectedIndices[k]]]
            /\ allContent' = <<>>
            /\ visits' = <<>>
            /\ popupPc' = "selected"
    /\ UNCHANGED <<extractorVars, serverVars, detectedSections, selectedFormat, checked, tabUrl,
                   downloadQueue, isProcessingQueue, loops, inFlight, downloads>>

ExtractSelectedClick == ExtractSelectedClickOn(PlacesAmongChecked(checked, detectedSections))

\* one turn of the loop over selectedSections: without a tab the section is passed over;
\* else the tab is navigated when the section is not flagged as the current page and is
\* asked to extract; its data is kept, a failure answer is dropped, and a rejected
\* message is logged by popup.ts and ends the batch of content.ts
ExtractSectionAs(section, outcome) ==
    IF outcome = "no tab"
    THEN /\ visits' = Append(visits, NoTab)
         /\ UNCHANGED <<tabUrl, allContent, popupPc, selectedSections>>
    ELSE /\ tabUrl' = ShownFor(section)
         /\ allContent' = IF outcome = "data"
                          THEN Append(allContent, [url |-> ShownFor(section)])
                          ELSE allContent
         /\ IF outcome = "rejected" /\ popupPc = "selected"
            THEN /\ popupPc' = "idle"
                 /\ selectedSections' = <<>>
                 /\ visits' = <<>>
            ELSE /\ visits' = Append(visits, ShownFor(section))
                 /\ UNCHANGED <<popupPc, selectedSections>>

ExtractSection ==
    /\ popupPc \in {"batch", "selected"}
    /\ Len(visits) < Len(selectedSections)
    /\ \E outcome \in {"data", "failure", "rejected", "no tab"} :
           ExtractSectionAs(selectedSections[Len(visits) + 1], outcome)
    /\ UNCHANGED <<extractorVars, serverVars, detectedSections, selectedFormat, checked,
                   downloadQueue, isProcessingQueue, loops, inFlight, downloads, clicks>>

\* popup.ts downloadBatchContent: the files of every page are queued, and
\* processDownloadQueue enters its loop unless isProcessingQueue is set
QueueBatch ==
    /\ downloadQueue' = downloadQueue \o BatchFiles(allContent, selectedFormat)
    /\ IF isProcessingQueue
       THEN /\ popupPc' = "idle"
            /\ UNCHANGED <<isProcessingQueue, loops>>
       ELSE /\ isProcessingQueue' = TRUE
            /\ loops' = loops + 1
            /\ popupPc' = "downloading"
    /\ UNCHANGED downloads

\* content.ts downloadBatchContent: one file per format for the whole batch, handed to
\* downloadFile at once
DownloadCombined ==
    /\ downloads' = downloads
                        \o [k \in DOMAIN FilesOf(allContent[1], selectedFormat) |->
                               [page |-> allContent[1].url,
                                type |-> IF FilesOf(allContent[1], selectedFormat)[k].type = "md"
                                         THEN "batch.md" ELSE "batch.json"]]
    /\ popupPc' = "idle"
    /\ UNCHANGED <<downloadQueue, isProcessingQueue, loops>>

\* the end of the loop over selectedSections
FinishBatch ==
    /\ popupPc \in {"batch", "selected"}
    /\ Len(visits) = Len(selectedSections)
    /\ IF allContent = <<>>
       THEN /\ popupPc' = "idle"
            /\ UNCHANGED <<downloadQueue, isProcessingQueue, loops, downloads>>
       ELSE IF popupPc = "batch" THEN QueueBatch ELSE DownloadCombined
    /\ selectedSections' = <<>>
    /\ visits' = <<>>
    /\ allContent' = <<>>
    /\ UNCHANGED <<extractorVars, serverVars, detectedSections, selectedFormat, checked, tabUrl,
                   inFlight, clicks>>

\* processDownloadQueue: the head of the queue is handed to downloadFile
DownloadNext ==
    /\ loops > 0
    /\ inFlight = NoFile
    /\ downloadQueue # <<>>
    /\ inFlight' = Head(downloadQueue)
    /\ downloadQueue' = Tail(downloadQueue)
    /\ downloads' = Append(downloads, Head(downloadQueue))
    /\ UNCHANGED <<extractorVars, serverVars, detectedSections, selectedFormat, checked, tabUrl,
                   popupPc, selectedSections, visits, allContent, isProcessingQueue, loops,
                   clicks>>

\* chrome.downloads calls back without an error: downloadFile resolves and the loop goes on
DownloadDone ==
    /\ inFlight # NoFile
    /\ inFlight' = NoFile
    /\ UNCHANGED <<extractorVars, serverVars, detectedSections, selectedFormat, checked, tabUrl,
                   popupPc, selectedSections, visits, allContent, downloadQueue,
                   isProcessingQueue, loops, downloads, clicks>>

\* chrome.downloads calls back with lastError: downloadFile rejects, the rejection leaves
\* processDownloadQueue and downloadBatchContent and is caught by extractMultipleSections
DownloadFailed ==
    /\ inFlight # NoFile
    /\ inFlight' = NoFile
    /\ loops' = loops - 1
    /\ popupPc' = "idle"
    /\ UNCHANGED <<extractorVars, serverVars, detectedSections, selectedFormat, checked, tabUrl,
                   selectedSections, visits, allContent, downloadQueue, isProcessingQueue,
                   downloads, clicks>>

\* processDownloadQueue finds the queue empty and leaves its loop
QueueDrained ==
    /\ loops > 0
    /\ inFlight = NoFile
    /\ downloadQueue = <<>>
    /\ isProcessingQueue' = FALSE
    /\ loops' = loops - 1
    /\ popupPc' = "idle"
    /\ UNCHANGED <<extractorVars, serverVars, detectedSections, selectedFormat, checked, tabUrl,
                   selectedSections, visits, allContent, downloadQueue, inFlight, downloads,
                   clicks>>

NextPopup ==
    \/ SelectFormat \/ ToggleSection \/ SelectAll
    \/ ExtractClick \/ ExtractSelectedClick \/ ExtractSection \/ FinishBatch
    \/ DownloadNext \/ DownloadDone \/ DownloadFailed \/ QueueDrained

SpecPopup == InitPopup /\ [][NextPopup]_vars


\* the sections whose boxes are checked, in the order of the list
CheckedSections ==
    [k \in DOMAIN InOrder(detectedSections, checked) |->
        detectedSections[InOrder(detectedSections, checked)[k]]]

\* C23: the batch started from the popup walks through exactly the sections whose
\* checkboxes are checked, each taken from its own position in the list of detected
\* sections.
C23_ExactlyTheChecked ==
    popupPc \in {"batch", "selected"} => selectedSections = CheckedSections

\* C25: in a batch, the page the tab shows when it is asked to extract for a section is
\* that section's page, also for a section flagged as the current page that comes after
\* a navigation.
C25_ExtractedFromOwnPage ==
    \A k \in DOMAIN visits : visits[k] # NoTab => visits[k] = selectedSections[k].url

\* the event loop runs every continuation that is ready, and chrome.downloads calls back
SpecPopupFair ==
    /\ SpecPopup
    /\ WF_vars(ExtractSection)
    /\ WF_vars(FinishBatch)
    /\ WF_vars(DownloadNext)
    /\ WF_vars(DownloadDone \/ DownloadFailed)
    /\ WF_vars(QueueDrained)

\* C27: the download queue recovers: whenever isProcessingQueue is set or a file waits in
\* the queue, eventually the flag is clear again and every queued file has been handed
\* to downloadFile.
C27_QueueRecovers ==
    (isProcessingQueue \/ downloadQueue # <<>>) ~> (~isProcessingQueue /\ downloadQueue = <<>>)


-----------------------------------------------------------------------------
(* The MCP server: the browser shared by the tool calls, and the             *)
(* extract_multiple_sections tool.                                           *)
-----------------------------------------------------------------------------

\* the most URLs handed to one tool call
MaxUrls == 2

ToolUrls == {"https://x.com/a", "https://x.com/b"}

UrlLists == UNION {[1..n -> ToolUrls] : n \in 0..MaxUrls}

\* a variant that drops the section of a URL that failed
PushedOnSuccess(sofar, url, ok) ==
    IF ok THEN Append(sofar, [url |-> url, ok |-> ok]) ELSE sofar

\* results.push of the loop body: the page's section after an extraction, an error section
\* from the catch clause
Pushed(sofar, url, ok) == Append(sofar, [url |-> url, ok |-> ok])

\* a client calls extract_multiple_sections
CallTool(c) ==
    /\ pc[c] = "idle"
    /\ \E list \in UrlLists : urls' = [urls EXCEPT ![c] = list]
    /\ pc' = [pc EXCEPT ![c] = "getBrowser"]
    /\ UNCHANGED <<extractorVars, popupVars, browser, connected, launched, browserInstance,
                   position, page, openPages, results>>

\* getBrowser up to its await: the module's browser is returned when it is set and
\* connected, else puppeteer.launch is called
GetBrowser(c) ==
    /\ pc[c] = "getBrowser"
    /\ IF browser = NoBrowser \/ browser \notin connected
       THEN /\ pc' = [pc EXCEPT ![c] = "launching"]
            /\ UNCHANGED browserInstance
       ELSE /\ pc' = [pc EXCEPT ![c] = "loop"]
            /\ browserInstance' = [browserInstance EXCEPT ![c] = browser]
    /\ UNCHANGED <<extractorVars, popupVars, browser, connected, launched, urls, position,
                   page, openPages, results>>

\* puppeteer.launch resolves: getBrowser stores the new browser and returns it
Launched(c) ==
    /\ pc[c] = "launching"
    /\ launched' = launched + 1
    /\ connected' = connected \cup {launched'}
    /\ browser' = launched'
    /\ browserInstance' = [browserInstance EXCEPT ![c] = launched']
    /\ pc' = [pc EXCEPT ![c] = "loop"]
    /\ UNCHANGED <<extractorVars, popupVars, urls, position, page, openPages, results>>

\* puppeteer.launch rejects: the tool call ends with that error
LaunchFailed(c) ==
    /\ pc[c] = "launching"
    /\ pc' = [pc EXCEPT ![c] = "thrown"]
    /\ UNCHANGED <<extractorVars, popupVars, browser, connected, launched, browserInstance,
                   urls, position, page, openPages, results>>

\* the loop takes its next URL and browserInstance.newPage() resolves
NewPage(c) ==
    /\ pc[c] = "loop"
    /\ position[c] <= Len(urls[c])
    /\ browserInstance[c] \in connected
    /\ page' = [page EXCEPT ![c] = [owner |-> c, place |-> position[c],
                                    browser |-> browserInstance[c]]]
    /\ openPages' = openPages \cup {page'[c]}
    /\ pc' = [pc EXCEPT ![c] = "goto"]
    /\ UNCHANGED <<extractorVars, popupVars, browser, connected, launched, browserInstance,
                   urls, position, results>>

\* the loop takes its next URL and browserInstance.newPage() rejects: the catch clause
\* pushes an error section, and the finally clause finds page null
NewPageFailed(c) ==
    /\ pc[c] = "loop"
    /\ position[c] <= Len(urls[c])
    /\ results' = [results EXCEPT ![c] = Pushed(@, urls[c][position[c]], FALSE)]
    /\ position' = [position EXCEPT ![c] = @ + 1]
    /\ UNCHANGED <<extractorVars, popupVars, browser, connected, launched, pc, browserInstance,
                   urls, page, openPages>>

\* page.goto, waitForPageReady and extractContent: the page's section is pushed when all
\* three resolve, which takes an open page; else the catch clause pushes an error section
GotoAndExtract(c) ==
    /\ pc[c] = "goto"
    /\ \E ok \in {ok \in BOOLEAN : ok => page[c] \in openPages} :
           results' = [results EXCEPT ![c] = Pushed(@, urls[c][position[c]], ok)]
    /\ pc' = [pc EXCEPT ![c] = "close"]
    /\ UNCHANGED <<extractorVars, popupVars, browser, connected, launched, browserInstance,
                   urls, position, page, openPages>>

\* the finally clause: page.close(), whose rejection is swallowed
ClosePage(c) ==
    /\ pc[c] = "close"
    /\ openPages' = openPages \ {page[c]}
    /\ page' = [page EXCEPT ![c] = NoPage]
    /\ position' = [position EXCEPT ![c] = @ + 1]
    /\ pc' = [pc EXCEPT ![c] = "loop"]
    /\ UNCHANGED <<extractorVars, popupVars, browser, connected, launched, browserInstance,
                   urls, results>>

\* the loop has no URL left: the tool returns the joined sections
ReturnSections(c) ==
    /\ pc[c] = "loop"
    /\ position[c] > Len(urls[c])
    /\ pc' = [pc EXCEPT ![c] = "returned"]
    /\ UNCHANGED <<extractorVars, popupVars, browser, connected, launched, browserInstance,
                   urls, position, page, openPages, results>>

\* a browser crashes or is disconnected; its pages are gone
Disconnected ==
    /\ \E b \in connected :
           /\ connected' = connected \ {b}
           /\ openPages' = {p \in openPages : p.browser # b}
    /\ UNCHANGED <<extractorVars, popupVars, browser, launched, pc, browserInstance, urls,
                   position, page, results>>

NextServer ==
    \/ \E c \in Calls :
           \/ CallTool(c) \/ GetBrowser(c) \/ Launched(c) \/ LaunchFailed(c)
           \/ NewPage(c) \/ NewPageFailed(c) \/ GotoAndExtract(c) \/ ClosePage(c)
           \/ ReturnSections(c)
    \/ Disconnected

InitServer ==
    /\ trees = EmptyStore
    /\ response = NoResponse
    /\ mainContent = 0
    /\ location = PageUrl
    /\ sections = NoSections
    /\ className = Unset
    /\ blockLang = Unset
    /\ fenceLang = Unset
    /\ unsupported = {}
    /\ normalizedLocation = Unset
    /\ harvests = 0
    /\ PopupClosed
    /\ ServerIdle

SpecServer == InitServer /\ [][NextServer]_vars

\* the pages a tool call has open
PagesOf(c) == {p \in openPages : p.owner = c}

\* C24: extract_multiple_sections returns one section per input URL, in input order; a
\* URL that fails gives an error section and the loop goes on with the next URL; and when
\* the loop turns to a URL, no page opened for an earlier URL is open.
C24_OneSectionPerUrl ==
    \A c \in Calls :
        /\ pc[c] = "returned" =>
               /\ Len(results[c]) = Len(urls[c])
               /\ \A k \in DOMAIN urls[c] : results[c][k].url = urls[c][k]
        /\ pc[c] \in {"loop", "returned"} =>
               /\ PagesOf(c) = {}
               /\ Len(results[c]) = position[c] - 1
        /\ \A p \in PagesOf(c) : p.place = position[c]

\* a call has returned an error section for its first URL followed by the page of its
\* second
C24_Witness ==
    \E c \in Calls :
        /\ pc[c] = "returned"
        /\ Len(urls[c]) = MaxUrls
        /\ ~results[c][1].ok
        /\ results[c][MaxUrls].ok

\* C28: getBrowser launches no browser while a connected browser exists or another launch
\* is in progress, and no running browser is left without the module's reference.
C28_SingleBrowser ==
    /\ Cardinality(connected) + Cardinality({c \in Calls : pc[c] = "launching"}) <= 1
    /\ connected \subseteq {browser}

====
